---------------------------- MODULE Spec2Model ----------------------------
(***************************************************************************)
(* A model of the three services of src/asc/services:                      *)
(*   - PubSubService  (pubsub.py):       the topic broker,                 *)
(*   - WebSubHub      (websub.py):       the verify-then-push webhook hub, *)
(*   - SmartCacheProxy (cache_proxy.py): the request-coalescing cache.     *)
(* The services run on one asyncio event loop: a coroutine runs without    *)
(* interruption until it awaits something that is not ready, so every      *)
(* action below is one such uninterrupted stretch of one coroutine.        *)
(* Each service has its own specification (SpecBroker, SpecHub, SpecCache) *)
(* over the shared variables; the services never touch each other's state. *)
(***************************************************************************)
EXTENDS Naturals, Integers, Sequences, FiniteSets, TLC

(***************************************************************************)
(* Bounds of the model.                                                    *)
(***************************************************************************)
MaxCalls == 2          \* SpecBroker: subscribe + unsubscribe calls
MaxPublish == 1        \* SpecBroker: publish calls
MaxFeedPublish == 3    \* SpecFeed: publish calls
MaxHistory == 2        \* the max_history the broker is constructed with
MaxGets == 3           \* SpecCache: get calls
MaxSize == 2           \* the max_size the cache is constructed with
MaxHubRequests == 2    \* SpecHub: handle_subscription_request calls
MaxHubPublish == 1     \* SpecHub: publish calls
MaxTicks == 1          \* SpecHub: steps of the clock
MaxStoreGets == 1      \* SpecStore, SpecLru: get calls per key
MaxRaceRequests == 3   \* SpecHubRace: handle_subscription_request calls

\* settings.websub_lease_seconds
WebsubLeaseSeconds == 86400

(***************************************************************************)
(* Strings.  TLC has no character operations, so every topic and key the   *)
(* model uses is listed with its characters, and the Python string methods *)
(* of the source work on the characters.                                   *)
(***************************************************************************)
Chars(t) ==
    CASE t = "alerts.all"           -> <<"a","l","e","r","t","s",".","a","l","l">>
      [] t = "alerts.critical"      -> <<"a","l","e","r","t","s",".","c","r","i","t","i","c","a","l">>
      [] t = "alerts.high"          -> <<"a","l","e","r","t","s",".","h","i","g","h">>
      [] t = "alerts.cms"           -> <<"a","l","e","r","t","s",".","c","m","s">>
      [] t = "alerts.framework"     -> <<"a","l","e","r","t","s",".","f","r","a","m","e","w","o","r","k">>
      [] t = "alerts.plugin"        -> <<"a","l","e","r","t","s",".","p","l","u","g","i","n">>
      [] t = "alerts.shopping_cart" -> <<"a","l","e","r","t","s",".","s","h","o","p","p","i","n","g","_","c","a","r","t">>
      [] t = "alerts.forum"         -> <<"a","l","e","r","t","s",".","f","o","r","u","m">>
      [] t = "alerts.sqli"          -> <<"a","l","e","r","t","s",".","s","q","l","i">>
      [] t = "alerts.xss"           -> <<"a","l","e","r","t","s",".","x","s","s">>
      [] t = "alerts.rce"           -> <<"a","l","e","r","t","s",".","r","c","e">>
      [] t = "alerts.*"             -> <<"a","l","e","r","t","s",".","*">>
      [] t = "alerts.cms.*"         -> <<"a","l","e","r","t","s",".","c","m","s",".","*">>
      [] t = "alerts."              -> <<"a","l","e","r","t","s",".">>
      [] t = ".*"                   -> <<".","*">>
      [] t = "system.status"        -> <<"s","y","s","t","e","m",".","s","t","a","t","u","s">>
      [] t = "critical"             -> <<"c","r","i","t","i","c","a","l">>
      [] t = "cms"                  -> <<"c","m","s">>
      [] t = "sqli"                 -> <<"s","q","l","i">>
      [] t = "k"                    -> <<"k">>
      [] t = "k1"                   -> <<"k","1">>
      [] t = "k2"                   -> <<"k","2">>
      [] t = "x"                    -> <<"x">>
      [] t = ""                     -> <<>>

\* str.startswith
StartsWith(s, p) == Len(p) <= Len(s) /\ SubSeq(s, 1, Len(p)) = p

\* str.endswith
EndsWith(s, x) == Len(x) <= Len(s) /\ SubSeq(s, Len(s) - Len(x) + 1, Len(s)) = x

\* s[:-2]
DropLast2(s) == SubSeq(s, 1, Len(s) - 2)

\* s.split("."): the parts between the dots
RECURSIVE Split(_)
Split(s) ==
    IF \A i \in 1..Len(s) : s[i] # "."
    THEN <<s>>
    ELSE LET d == CHOOSE i \in 1..Len(s) : s[i] = "." /\ \A j \in 1..(i-1) : s[j] # "."
         IN  <<SubSeq(s, 1, d - 1)>> \o Split(SubSeq(s, d + 1, Len(s)))

\* ".".join(parts)
RECURSIVE Join(_)
Join(parts) ==
    IF Len(parts) = 0 THEN <<>>
    ELSE IF Len(parts) = 1 THEN parts[1]
    ELSE parts[1] \o <<".">> \o Join(Tail(parts))

(***************************************************************************)
(* The broker: PubSubService.                                              *)
(*                                                                         *)
(* SpecBroker drives the broker's interface with arbitrary callers.        *)
(* SpecFeed drives it the way the application does: WebSocket connections  *)
(* and stored subscriptions come and go while alerts are published.        *)
(***************************************************************************)
\* PubSubService.TOPICS: the predefined topics
TOPICS ==
    {"alerts.all", "alerts.critical", "alerts.high", "alerts.cms",
     "alerts.framework", "alerts.plugin", "alerts.shopping_cart",
     "alerts.forum", "alerts.sqli", "alerts.xss", "alerts.rce"}

\* every topic string a caller of the model passes to the broker
TopicUniverse == TOPICS \cup {"alerts.*", "system.status"}

\* the topic lists subscribe and unsubscribe are called with
TopicLists == {{"alerts.cms"}, {"alerts.framework"}, {"alerts.all"}, {"alerts.*"}}


\* the subscriber ids: a WebSocket connection and a stored subscription
SubIds == {"ws_1", "sub_1"}

\* The callback registered for each subscriber id: websocket_alerts registers
\* the coroutine function ws_callback, create_subscription a plain lambda.
CallbackKind(sid) == IF sid = "ws_1" THEN "async" ELSE "sync"

\* payloads: a set of (key, value) pairs, one pair per key
Payloads ==
    { {},
      {[key |-> "severity", value |-> "critical"]},
      {[key |-> "severity", value |-> "low"]} }

\* the (topic, payload) pairs publish is called with
Publishes ==
    {[topic |-> "alerts.cms", payload |-> p] : p \in Payloads}
        \cup {[topic |-> "system.status", payload |-> {}]}

ScalarFilter == {[key |-> "severity", list |-> FALSE, value |-> "critical", items |-> <<>>]}

ListFilter ==
    {[key |-> "severity", list |-> TRUE, value |-> "", items |-> <<"critical", "high">>]}

\* filters: a set of (key, accepted) pairs; accepted is a scalar or a list.
\* The WebSocket subscriber registers without filters (as websocket_alerts
\* does), the other one with a scalar or a list filter.
FiltersOf(sid) == IF sid = "ws_1" THEN {{}} ELSE {ScalarFilter, ListFilter}

NoSubscriber == [registered |-> FALSE, topics |-> {}, filters |-> {}]

VARIABLES
    subscribers,        \* _subscribers: id -> Subscriber (NoSubscriber: absent)
    topic_subscribers,  \* _topic_subscribers: topic -> set of ids
    message_history,    \* _message_history
    pub,                \* the publish coroutines, in call order: where each one stands
    running,            \* the publish coroutine that holds the event loop, or 0
    calls,              \* number of subscribe/unsubscribe calls counted by SpecBroker
    set_order,          \* the order in which this process iterates a set of ids
    published,          \* history variable: every Message, in publish-call order
    received,           \* history variable: per subscriber, the callback invocations
    raised              \* history variable: the callbacks that raised, with the ids
                        \* their publish had still to deliver to

brokerVars ==
    <<subscribers, topic_subscribers, message_history, pub, running, calls,
      set_order, published, received, raised>>

\* SmartCacheProxy and its LRUCache (cache_proxy.py)
VARIABLES
    cache,              \* LRUCache._cache: the entries, least recently used first
    pending_requests,   \* _pending_requests: key -> the call whose future is stored
    futures,            \* the future each get call created: unset, or its outcome
    lock,               \* SmartCacheProxy._lock: its holder and the FIFO of waiters
    popular_keys,       \* _popular_keys
    get_call            \* the get calls, in call order: where each one stands, with
                        \* the history of the call (missed, stored, invoked, overlaps, during,
                        \* invalidated)

cacheVars ==
    <<cache, pending_requests, futures, lock, popular_keys, get_call>>

\* WebSubHub (websub.py)
VARIABLES
    hub_topics,         \* _topics: topic -> registered?, stored subscriber_count
    hub_subscriptions,  \* _subscriptions: topic -> the entries, in insertion order
    subs,               \* every WebSubSubscription object created, by number
    verifications,      \* the _verify_subscription tasks awaiting the GET response
    hub_pub,            \* the publish coroutines of the hub, in call order
    now,                \* datetime.now(), in seconds
    requests,           \* number of handle_subscription_request calls so far
    reply,              \* the status_code of the last reply, 0 before the first
    pushes,             \* history variable: every content push sent
    echoed,             \* history variable: the (topic, callback) pairs whose subscribe
                        \* challenge came back echoed with status 200
    answered            \* history variable, kept by SpecHubGate: the answer to the
                        \* challenge of the last verification that ended, and
                        \* whether the hub took it for an echo

hubVars ==
    <<hub_topics, hub_subscriptions, subs, verifications, hub_pub, now, requests,
      reply, pushes, echoed, answered>>

\* what the read-only calls returned
VARIABLES
    history_result      \* the last get_history call: its arguments, the history it
                        \* read and the messages it returned

readVars == <<history_result>>

\* the cache operations other than get with a fetcher
VARIABLES
    warming,            \* the keys whose warm_single is awaiting its fetcher
    last_op,            \* the last cache operation that returned, and what it
                        \* returned
    recency             \* history variable, kept by SpecLru: the stored keys, the
                        \* one whose last set or get hit is oldest first

storeVars == <<warming, last_op, recency>>

otherThanBroker == <<cacheVars, hubVars, readVars, storeVars>>
otherThanCache == <<brokerVars, hubVars, readVars, storeVars>>
otherThanHub == <<brokerVars, cacheVars, readVars, storeVars>>

vars == <<brokerVars, cacheVars, hubVars, readVars, storeVars>>

InitBroker ==
    /\ subscribers = [s \in SubIds |-> NoSubscriber]
    /\ topic_subscribers = [t \in TopicUniverse |-> {}]
    /\ message_history = <<>>
    /\ pub = <<>>
    /\ running = 0
    /\ calls = 0
    /\ set_order \in {<<"ws_1", "sub_1">>, <<"sub_1", "ws_1">>}
    /\ published = <<>>
    /\ received = [s \in SubIds |-> <<>>]
    /\ raised = {}

\* subscribe, lines 128-132: the predefined topics a topic of the list adds to
WildcardTargets(w) ==
    IF EndsWith(Chars(w), Chars(".*"))
    THEN {t \in TOPICS : StartsWith(Chars(t), DropLast2(Chars(w)))}
    ELSE {}

\* the same, tabulated once
WildcardTable == [w \in TopicUniverse |-> WildcardTargets(w)]

\* subscribe, lines 125-132: the index after registering `topics` for sid
SubscribeIndex(index, sid, topics) ==
    LET added == topics \cup UNION {WildcardTable[w] : w \in topics}
    IN  [t \in TopicUniverse |-> IF t \in added THEN index[t] \cup {sid} ELSE index[t]]

\* history variable: every publish already started has seen a subscribe or
\* unsubscribe call since it started
Disturbed(pubs) == [p \in 1..Len(pubs) |-> [pubs[p] EXCEPT !.quiet = FALSE]]

\* subscribe(subscriber_id, topics, callback, filters).  The lock is free
\* whenever a coroutine asks for it (no holder ever awaits), so the body is
\* one uninterrupted stretch.
SubscribeOp(sid, topics, filters) ==
    /\ running = 0
    /\ subscribers' = [subscribers EXCEPT ![sid] =
            [registered |-> TRUE, topics |-> topics, filters |-> filters]]
    /\ topic_subscribers' = SubscribeIndex(topic_subscribers, sid, topics)
    /\ pub' = Disturbed(pub)
    /\ UNCHANGED otherThanBroker
    /\ UNCHANGED <<message_history, running, set_order, published, received, raised>>

\* unsubscribe, lines 154-155: the topics removed (None: all of the subscriber's)
UnsubscribeTopics(sub, arg) == IF arg.all THEN sub.topics ELSE arg.topics

AllTopics == [all |-> TRUE, topics |-> {}]

UnsubscribeArgs == {AllTopics, [all |-> FALSE, topics |-> {"alerts.cms"}]}

\* unsubscribe(subscriber_id, topics=None)
UnsubscribeOp(sid, arg) ==
    /\ running = 0
    /\ IF ~subscribers[sid].registered
       THEN UNCHANGED <<subscribers, topic_subscribers>>      \* return False
       ELSE LET gone == UnsubscribeTopics(subscribers[sid], arg)
                left == subscribers[sid].topics \ gone
            IN  /\ subscribers' = [subscribers EXCEPT ![sid] =
                        IF left = {} THEN NoSubscriber
                        ELSE [@ EXCEPT !.topics = left]]
                /\ topic_subscribers' =
                        [t \in TopicUniverse |->
                            IF t \in gone THEN topic_subscribers[t] \ {sid}
                            ELSE topic_subscribers[t]]
    /\ pub' = Disturbed(pub)
    /\ UNCHANGED otherThanBroker
    /\ UNCHANGED <<message_history, running, set_order, published, received, raised>>

\* a filter key missing from the payload does not reject
MatchesFiltersSkipsMissing(payload, filters) ==
    \A f \in filters :
        (\E e \in payload : e.key = f.key) =>
            LET v == (CHOOSE e \in payload : e.key = f.key).value
            IN  IF f.list THEN \E i \in 1..Len(f.items) : f.items[i] = v
                ELSE v = f.value

\* _matches_filters(payload, filters)
MatchesFilters(payload, filters) ==
    \A f \in filters :
        /\ \E e \in payload : e.key = f.key                  \* key in payload
        /\ LET v == (CHOOSE e \in payload : e.key = f.key).value
           IN  IF f.list
               THEN \E i \in 1..Len(f.items) : f.items[i] = v   \* payload[key] in value
               ELSE v = f.value                                 \* payload[key] == value

\* the newest message is dropped instead of the oldest
HistoryAppendDropsNewest(history, message) ==
    LET appended == Append(history, message)
    IN  IF Len(appended) > MaxHistory THEN SubSeq(appended, 1, MaxHistory) ELSE appended

\* publish, lines 182-184: append, then drop the first message when over max_history
HistoryAppend(history, message) ==
    LET appended == Append(history, message)
    IN  IF Len(appended) > MaxHistory THEN Tail(appended) ELSE appended

\* the 'alerts.all' subscribers are left out
DeliveryKeysNoCatchAll(topic) ==
    LET parts == Split(Chars(topic))
        patterns == {Join(SubSeq(parts, 1, i)) \o Chars(".*") : i \in 1..Len(parts)}
    IN  {topic} \cup {u \in TopicUniverse : Chars(u) \in patterns}

\* _deliver_message, lines 194-204: the index keys the delivery loop reads
DeliveryKeys(topic) ==
    LET parts == Split(Chars(topic))
        patterns == {Join(SubSeq(parts, 1, i)) \o Chars(".*") : i \in 1..Len(parts)}
    IN  {topic}
        \cup {u \in TopicUniverse : Chars(u) \in patterns}
        \cup (IF StartsWith(Chars(topic), Chars("alerts.")) THEN {"alerts.all"} ELSE {})

\* the same, tabulated once
DeliveryTable == [t \in TopicUniverse |-> DeliveryKeys(t)]

\* _deliver_message, lines 194-204: the ids the delivery loop runs over
DeliveryIds(index, topic) == UNION {index[k] : k \in DeliveryTable[topic]}

\* the delivery loop after one subscriber is dealt with: next id, or return
LoopOn(rec) == IF rec.ids = {} THEN [rec EXCEPT !.pc = "done", !.cur = ""]
               ELSE [rec EXCEPT !.pc = "loop", !.cur = ""]

\* no except clause: the error ends the delivery loop and the publish
AfterCallbackPropagates(rec, outcome) ==
    IF outcome = "raise" THEN [rec EXCEPT !.pc = "failed", !.cur = "", !.ids = {}]
    ELSE LoopOn(rec)

AfterCallbackPerRoute(rec, outcome) ==
    IF rec.cur # "" /\ Len(received[rec.cur]) < 2
    THEN [rec EXCEPT !.pc = "loop", !.ids = @ \cup {rec.cur}, !.cur = ""]
    ELSE IF rec.ids = {} THEN [rec EXCEPT !.pc = "done", !.cur = ""]
    ELSE [rec EXCEPT !.pc = "loop", !.cur = ""]

\* _deliver_message, lines 209-215: a callback that returned or raised; the
\* except clause logs the error and the loop goes on
AfterCallback(rec, outcome) == LoopOn(rec)

Holder(p, rec) == IF rec.pc = "loop" THEN p ELSE 0

\* publish(topic, payload) up to the delivery loop
PublishOp(topic, payload) ==
    LET p == Len(published) + 1
        message == [id |-> p, topic |-> topic, payload |-> payload]
        rec == LoopOn([pc |-> "loop", ids |-> DeliveryIds(topic_subscribers, topic),
                       cur |-> "", quiet |-> TRUE])
    IN  /\ running = 0
        /\ message_history' = HistoryAppend(message_history, message)
        /\ published' = Append(published, message)
        /\ pub' = Append(pub, rec)
        /\ running' = Holder(p, rec)
        /\ UNCHANGED otherThanBroker
        /\ UNCHANGED <<subscribers, topic_subscribers, calls, set_order, received, raised>>

\* `for subscriber_id in subscriber_ids`: the next id of the set.  A set of
\* strings is iterated in the order of the strings' hashes, which is fixed for
\* the life of the process and differs from process to process (set_order).
NextId(ids) ==
    set_order[CHOOSE i \in 1..Len(set_order) :
                 /\ set_order[i] \in ids
                 /\ \A j \in 1..(i-1) : set_order[j] \notin ids]

\* history variable: the record of one callback invocation
Invocation(p, sub) == [msg |-> p]

\* loop body, lines 207-208: the subscriber is gone or its filter rejects
SkipSubscriber ==
    \E p \in 1..Len(pub), s \in SubIds :
        /\ running = p /\ pub[p].pc = "loop" /\ s = NextId(pub[p].ids)
        /\ ~(subscribers[s].registered
             /\ MatchesFilters(published[p].payload, subscribers[s].filters))
        /\ LET rec == LoopOn([pub[p] EXCEPT !.ids = @ \ {s}])
           IN  pub' = [pub EXCEPT ![p] = rec] /\ running' = Holder(p, rec)
        /\ UNCHANGED otherThanBroker
        /\ UNCHANGED <<subscribers, topic_subscribers, message_history, calls,
                       set_order, published, received, raised>>

\* loop body, lines 212-213: a plain callback runs to its end, or raises
SyncCall(outcome) ==
    \E p \in 1..Len(pub), s \in SubIds :
        /\ running = p /\ pub[p].pc = "loop" /\ s = NextId(pub[p].ids)
        /\ subscribers[s].registered
        /\ MatchesFilters(published[p].payload, subscribers[s].filters)
        /\ CallbackKind(s) = "sync"
        /\ received' = [received EXCEPT ![s] = Append(@, Invocation(p, subscribers[s]))]
        /\ raised' = IF outcome = "raise"
                     THEN raised \cup {[pub |-> p, sub |-> s, pending |-> pub[p].ids \ {s}]}
                     ELSE raised
        /\ LET rec == AfterCallback([pub[p] EXCEPT !.ids = @ \ {s}], outcome)
           IN  pub' = [pub EXCEPT ![p] = rec] /\ running' = Holder(p, rec)
        /\ UNCHANGED otherThanBroker
        /\ UNCHANGED <<subscribers, topic_subscribers, message_history, calls, set_order,
                       published>>

InvokeSync == SyncCall("return")

InvokeSyncRaises == SyncCall("raise")

\* loop body, lines 210-211: a coroutine callback is started and suspends
InvokeAsync ==
    \E p \in 1..Len(pub), s \in SubIds :
        /\ running = p /\ pub[p].pc = "loop" /\ s = NextId(pub[p].ids)
        /\ subscribers[s].registered
        /\ MatchesFilters(published[p].payload, subscribers[s].filters)
        /\ CallbackKind(s) = "async"
        /\ received' = [received EXCEPT ![s] = Append(@, Invocation(p, subscribers[s]))]
        /\ pub' = [pub EXCEPT ![p] = [@ EXCEPT !.pc = "await", !.cur = s, !.ids = @ \ {s}]]
        /\ running' = 0
        /\ UNCHANGED otherThanBroker
        /\ UNCHANGED <<subscribers, topic_subscribers, message_history, calls,
                       set_order, published, raised>>

\* the awaited callback ends (returns or raises) and the loop resumes
AsyncEnd(outcome) ==
    \E p \in 1..Len(pub) :
        /\ running = 0 /\ pub[p].pc = "await"
        /\ raised' = IF outcome = "raise"
                     THEN raised \cup {[pub |-> p, sub |-> pub[p].cur, pending |-> pub[p].ids]}
                     ELSE raised
        /\ LET rec == AfterCallback(pub[p], outcome)
           IN  pub' = [pub EXCEPT ![p] = rec] /\ running' = Holder(p, rec)
        /\ UNCHANGED otherThanBroker
        /\ UNCHANGED <<subscribers, topic_subscribers, message_history, calls,
                       set_order, published, received>>

CallbackReturns == AsyncEnd("return")

CallbackRaises == AsyncEnd("raise")

\* ---- SpecBroker: any caller ----
Subscribe ==
    \E sid \in SubIds, topics \in TopicLists :
        \E filters \in FiltersOf(sid) :
            /\ calls < MaxCalls
            /\ calls' = calls + 1
            /\ SubscribeOp(sid, topics, filters)

Unsubscribe ==
    \E sid \in SubIds, arg \in UnsubscribeArgs :
        /\ calls < MaxCalls
        /\ calls' = calls + 1
        /\ UnsubscribeOp(sid, arg)

Publish ==
    \E m \in Publishes :
        /\ Len(published) < MaxPublish
        /\ PublishOp(m.topic, m.payload)

NextBroker ==
    \/ Subscribe
    \/ Unsubscribe
    \/ Publish
    \/ SkipSubscriber
    \/ InvokeSync
    \/ InvokeSyncRaises
    \/ InvokeAsync
    \/ CallbackReturns
    \/ CallbackRaises

\* ---- SpecFeed: the application's callers ----
\* Their callbacks never raise: ws_callback catches every Exception and the
\* stored subscriptions' lambda returns None.
\* websocket_alerts: subscribe(connection_id, topic_list, ws_callback), the
\* topics query parameter defaulting to "alerts.all"
WsConnect ==
    /\ ~subscribers["ws_1"].registered
    /\ SubscribeOp("ws_1", {"alerts.all"}, {})
    /\ UNCHANGED calls

\* websocket_alerts, the finally clause: unsubscribe(connection_id)
WsDisconnect ==
    /\ subscribers["ws_1"].registered
    /\ UnsubscribeOp("ws_1", AllTopics)
    /\ UNCHANGED calls

\* create_subscription: subscribe("sub_<id>", [topic], lambda, filters)
CreateSubscription ==
    /\ ~subscribers["sub_1"].registered
    /\ SubscribeOp("sub_1", {"alerts.all"}, {})
    /\ UNCHANGED calls

\* delete_subscription: unsubscribe("sub_<id>")
DeleteSubscription ==
    /\ subscribers["sub_1"].registered
    /\ UnsubscribeOp("sub_1", AllTopics)
    /\ UNCHANGED calls

\* publish_exploit_alert: publish("alerts.all", payload), publish("alerts.cms", payload)
PublishAlert ==
    \E topic \in {"alerts.all", "alerts.cms"} :
        /\ Len(published) < MaxFeedPublish
        /\ PublishOp(topic, {[key |-> "severity", value |-> "critical"]})

\* the exploits of the producer, by the fields publish_exploit_alert reads
\* (already in lower case; "" is a field that names no topic)
Exploits ==
    {[severity |-> sev, software_type |-> soft, exploit_type |-> kind] :
        sev \in {"critical", "low"}, soft \in {"cms", ""}, kind \in {"sqli", ""}}

\* the payload publish_exploit_alert builds, by the fields that matter here
AlertPayload(exploit) ==
    {[key |-> "severity", value |-> exploit.severity],
     [key |-> "software_type", value |-> exploit.software_type],
     [key |-> "exploit_type", value |-> exploit.exploit_type]}

\* payload[key]
Field(payload, key) == (CHOOSE pair \in payload : pair.key = key).value

\* f"alerts.{name}"
AlertsTopic(name) ==
    CHOOSE t \in TOPICS : Chars(t) = Chars("alerts.") \o Chars(name)

\* publish_exploit_alert: the topics of its publish calls, in order
AlertTopics(payload) ==
    LET severity == Field(payload, "severity")
        software_type == Field(payload, "software_type")
        exploit_type == Field(payload, "exploit_type")
    IN  <<"alerts.all">>
        \o (IF severity \in {"critical", "high"} THEN <<AlertsTopic(severity)>> ELSE <<>>)
        \o (IF software_type # ""
               /\ software_type \in {"cms", "framework", "plugin", "shopping_cart", "forum"}
            THEN <<AlertsTopic(software_type)>> ELSE <<>>)
        \o (IF exploit_type \in {"sqli", "xss", "rce"} THEN <<AlertsTopic(exploit_type)>> ELSE <<>>)

\* one call of publish_exploit_alert for one exploit: its next publish, made
\* when the publish before it has returned
AlertPublishes ==
    \E payload \in (IF published = <<>> THEN {AlertPayload(exploit) : exploit \in Exploits}
                    ELSE {published[1].payload}) :
        LET topics == AlertTopics(payload)
            k == Len(published) + 1
        IN  /\ k <= Len(topics)
            /\ k > 1 => pub[k - 1].pc = "done"
            /\ PublishOp(topics[k], payload)

\* one alert of the producer, with a WebSocket feed and a stored subscription
NextAlert ==
    \/ WsConnect
    \/ CreateSubscription
    \/ AlertPublishes
    \/ InvokeSync
    \/ InvokeAsync
    \/ CallbackReturns

NextFeed ==
    \/ WsConnect
    \/ WsDisconnect
    \/ CreateSubscription
    \/ DeleteSubscription
    \/ PublishAlert
    \/ SkipSubscriber
    \/ InvokeSync
    \/ InvokeAsync
    \/ CallbackReturns

(***************************************************************************)
(* PubSubService.get_history (pubsub.py).  The timestamp of a message is   *)
(* its number in publish order; a topic of "" and a since of 0 stand for   *)
(* arguments left at None.                                                 *)
(***************************************************************************)
HistoryTopics == {"", "alerts.cms", "alerts.all"}

HistorySince == {0, 2}

HistoryLimits == {0, 1, 2}

NoResult == [asked |-> FALSE, topic |-> "", since |-> 0, limit |-> 0,
             retained |-> <<>>, messages |-> <<>>]

InitRead == history_result = NoResult

\* seq[i:] of Python, for an index of either sign
SliceFrom(seq, i) ==
    LET start == IF i < 0
                 THEN (IF Len(seq) + i < 0 THEN 0 ELSE Len(seq) + i)
                 ELSE (IF i > Len(seq) THEN Len(seq) ELSE i)
    IN  SubSeq(seq, start + 1, Len(seq))

\* get_history(topic, since, limit) on the history
GetHistoryOf(history, topic, since, limit) ==
    LET byTopic == IF topic # ""
                   THEN SelectSeq(history,
                            LAMBDA m : m.topic = topic \/ topic = "alerts.all")
                   ELSE history
        bySince == IF since # 0
                   THEN SelectSeq(byTopic, LAMBDA m : m.id >= since)
                   ELSE byTopic
    IN  SliceFrom(bySince, 0 - limit)          \* messages[-limit:]

GetHistory ==
    \E topic \in HistoryTopics, since \in HistorySince, limit \in HistoryLimits :
        /\ history_result' =
              [asked |-> TRUE, topic |-> topic, since |-> since, limit |-> limit,
               retained |-> message_history,
               messages |-> GetHistoryOf(message_history, topic, since, limit)]
        /\ UNCHANGED <<brokerVars, cacheVars, hubVars, storeVars>>

\* publish(topic, payload) while nobody is subscribed
PublishUnheard ==
    \E topic \in {"alerts.cms", "alerts.framework", "system.status"} :
        /\ Len(published) < MaxFeedPublish
        /\ PublishOp(topic, {})

NextHistory ==
    \/ PublishUnheard
    \/ GetHistory

(***************************************************************************)
(* SmartCacheProxy and LRUCache (cache_proxy.py).                          *)
(* Every get call runs in a task of its own; the calls are numbered in the *)
(* order they are made.  LRUCache._lock is only ever held over code that   *)
(* does not await, so it is never contended and the LRUCache methods are   *)
(* plain functions here.  SmartCacheProxy._lock is an asyncio.Lock:        *)
(* release hands it to the head of the FIFO of waiters, who runs when the  *)
(* event loop schedules it.  A value of "None" is Python's None; the       *)
(* outcome "raise" is an Exception raised by the fetcher.  Expiry is the   *)
(* flag 'expired' of an entry: it becomes true when datetime.now() passes  *)
(* expires_at.                                                             *)
(***************************************************************************)
CacheKeys == {"k1", "k2"}

\* the keys of the operations of SpecStore: "k" is a prefix of the others
StoreKeys == CacheKeys \cup {"k"}

GetCalls == 1..MaxGets

FetchOutcomes == {"v1", "None", "raise"}

\* a get call that has not been made yet
NoCall ==
    [pc |-> "idle", key |-> "", fetcher |-> FALSE, missed |-> FALSE, invoked |-> FALSE,
     stored |-> FALSE, awaits |-> 0, outcome |-> "", overlaps |-> {}, during |-> 0,
     invalidated |-> FALSE]

FreeLock == [holder |-> 0, waiters |-> <<>>]

InitCache ==
    /\ cache = <<>>
    /\ pending_requests = [k \in CacheKeys |-> 0]
    /\ futures = [c \in GetCalls |-> "none"]
    /\ lock = FreeLock
    /\ popular_keys = [k \in StoreKeys |-> 0]
    /\ get_call = [c \in GetCalls |-> NoCall]

\* key in self._cache
CacheHas(entries, key) == \E i \in 1..Len(entries) : entries[i].key = key

CacheEntryOf(entries, key) ==
    entries[CHOOSE i \in 1..Len(entries) : entries[i].key = key]

\* del self._cache[key]
CacheDelete(entries, key) == SelectSeq(entries, LAMBDA e : e.key # key)

LRUGetKeepsExpired(entries, key) ==
    IF ~CacheHas(entries, key)
    THEN [cache |-> entries, value |-> "None", branch |-> "absent"]
    ELSE LET entry == CacheEntryOf(entries, key) IN
         [cache |-> Append(CacheDelete(entries, key), entry),
          value |-> entry.value, branch |-> "hit"]

\* LRUCache.get: the cache afterwards, the value returned, and the return
\* statement taken (key absent, entry expired, hit)
LRUGet(entries, key) ==
    IF ~CacheHas(entries, key)
    THEN [cache |-> entries, value |-> "None", branch |-> "absent"]
    ELSE LET entry == CacheEntryOf(entries, key) IN
         IF entry.expired
         THEN [cache |-> CacheDelete(entries, key), value |-> "None", branch |-> "expired"]
         ELSE [cache |-> Append(CacheDelete(entries, key), entry),   \* move_to_end
               value |-> entry.value, branch |-> "hit"]

\* while len(self._cache) >= self._max_size: self._cache.popitem(last=False)
RECURSIVE EvictTo(_, _)
EvictTo(entries, max_size) ==
    IF Len(entries) >= max_size THEN EvictTo(Tail(entries), max_size) ELSE entries

\* the eviction of a cache built with max_size = MaxSize
EvictAtCapacity(entries) == EvictTo(entries, MaxSize)

LRUSetSizedNoEviction(max_size, entries, key, value, etag) ==
    Append(CacheDelete(entries, key),
           [key |-> key, value |-> value, etag |-> etag, expired |-> FALSE])

\* LRUCache.set with an etag: assigning to a key that is present keeps its
\* position; an etag of "None" is an absent etag
LRUSetSized(max_size, entries, key, value, etag) ==
    LET kept == EvictTo(entries, max_size)
        entry == [key |-> key, value |-> value, etag |-> etag, expired |-> FALSE]
    IN  IF CacheHas(kept, key)
        THEN [i \in 1..Len(kept) |-> IF kept[i].key = key THEN entry ELSE kept[i]]
        ELSE Append(kept, entry)

\* LRUCache.set of a cache built with max_size = MaxSize
LRUSetTagged(entries, key, value, etag) == LRUSetSized(MaxSize, entries, key, value, etag)

\* LRUCache.set as get calls it: self._cache.set(key, value, ttl=ttl)
LRUSet(entries, key, value) == LRUSetTagged(entries, key, value, "None")

ReleaseWakesNobody(l) == [l EXCEPT !.holder = 0]

\* asyncio.Lock.release: the head of the waiters is woken and owns the lock
Release(l) ==
    IF l.waiters = <<>>
    THEN FreeLock
    ELSE [holder |-> Head(l.waiters), waiters |-> Tail(l.waiters)]

\* call c returns the outcome (a value, or the error it raises)
Returned(call, outcome) == [call EXCEPT !.pc = "returned", !.outcome = outcome]

JoinsPendingNever(pending, key) == FALSE

\* if key in self._pending_requests
JoinsPending(pending, key) == pending[key] # 0

\* the body of 'async with self._lock' of get, run by call c owning the lock
DedupBody(c, call) ==
    LET held == [lock EXCEPT !.holder = c] IN
    IF JoinsPending(pending_requests, call.key)
    THEN LET owner == pending_requests[call.key] IN
         /\ UNCHANGED <<pending_requests, futures>>
         /\ IF futures[owner] # "unset"
            THEN \* awaiting a future that is done does not suspend
                 /\ lock' = Release(held)
                 /\ get_call' = [get_call EXCEPT ![c] = Returned(call, futures[owner])]
            ELSE \* suspended on the future, inside the 'async with'
                 /\ lock' = held
                 /\ get_call' = [get_call EXCEPT ![c] =
                        [call EXCEPT !.pc = "await_future", !.awaits = owner]]
    ELSE /\ futures' = [futures EXCEPT ![c] = "unset"]
         /\ pending_requests' = [pending_requests EXCEPT ![call.key] = c]
         /\ lock' = Release(held)
         /\ get_call' = [get_call EXCEPT ![c] =
                [call EXCEPT !.pc = "fetch", !.invoked = TRUE]]

\* the calls that have been made and have not returned yet
ActiveCalls == {c \in GetCalls : get_call[c].pc \notin {"idle", "returned"}}

\* a value that has not expired is stored under the key
Stored(entries, key) == CacheHas(entries, key) /\ ~CacheEntryOf(entries, key).expired

\* the call whose fetcher is running for the key, or 0
FetchInProgress(key) ==
    LET fetching == {c \in GetCalls : get_call[c].pc = "fetch" /\ get_call[c].key = key}
    IN  IF fetching = {} THEN 0 ELSE CHOOSE c \in fetching : TRUE

\* SmartCacheProxy.get(key, fetcher), up to its first suspension
Get(c, key, fetcher) ==
    LET looked == LRUGet(cache, key)
        call == [NoCall EXCEPT !.key = key, !.fetcher = fetcher,
                               !.missed = (looked.value = "None"),
                               !.stored = Stored(cache, key),
                               !.overlaps = ActiveCalls,
                               !.during = FetchInProgress(key)]
    IN  /\ get_call[c].pc = "idle"
        /\ \A d \in 1..(c - 1) : get_call[d].pc # "idle"
        /\ popular_keys' = [popular_keys EXCEPT ![key] = @ + 1]
        /\ cache' = looked.cache
        /\ IF looked.value # "None" \/ ~fetcher
           THEN \* return cached / return None
                /\ get_call' = [get_call EXCEPT ![c] = Returned(call, looked.value)]
                /\ UNCHANGED <<pending_requests, futures, lock>>
           ELSE IF lock.holder = 0
           THEN DedupBody(c, call)
           ELSE \* the lock is taken: wait in its queue
                /\ lock' = [lock EXCEPT !.waiters = Append(@, c)]
                /\ get_call' = [get_call EXCEPT ![c] = [call EXCEPT !.pc = "acquire"]]
                /\ UNCHANGED <<pending_requests, futures>>
        /\ UNCHANGED otherThanCache

GetCall == \E c \in GetCalls, key \in CacheKeys, fetcher \in BOOLEAN : Get(c, key, fetcher)

\* a get that waited for the lock now owns it
Deduplicate ==
    \E c \in GetCalls :
        /\ get_call[c].pc = "acquire"
        /\ lock.holder = c
        /\ DedupBody(c, get_call[c])
        /\ UNCHANGED <<cache, popular_keys>>
        /\ UNCHANGED otherThanCache

PopPendingKeeps(pending, key) == pending

\* self._pending_requests.pop(key, None)
PopPending(pending, key) == [pending EXCEPT ![key] = 0]

\* the fetcher of call c finishes: the rest of the try, the except, the finally
FetcherEnds(c, outcome) ==
    LET key == get_call[c].key IN
    /\ get_call[c].pc = "fetch"
    /\ cache' = IF outcome = "raise" THEN cache ELSE LRUSet(cache, key, outcome)
    /\ IF lock.holder = 0
       THEN /\ pending_requests' = PopPending(pending_requests, key)
            /\ futures' = [futures EXCEPT ![c] = "none"]
            /\ get_call' = [get_call EXCEPT ![c] = Returned(@, outcome)]
            /\ UNCHANGED lock
       ELSE /\ futures' = [futures EXCEPT ![c] = outcome]    \* set_result / set_exception
            /\ lock' = [lock EXCEPT !.waiters = Append(@, c)]
            /\ get_call' = [get_call EXCEPT ![c].pc = "finally", ![c].outcome = outcome]
            /\ UNCHANGED pending_requests
    /\ UNCHANGED popular_keys
    /\ UNCHANGED otherThanCache

FetcherReturns == \E c \in GetCalls, value \in FetchOutcomes \ {"raise"} : FetcherEnds(c, value)

FetcherRaises == \E c \in GetCalls : FetcherEnds(c, "raise")

\* the future a call awaits is done: it leaves the 'async with' and returns
WaiterResumes ==
    \E c \in GetCalls :
        /\ get_call[c].pc = "await_future"
        /\ futures[get_call[c].awaits] \notin {"unset", "none"}
        /\ lock' = Release(lock)
        /\ get_call' = [get_call EXCEPT ![c] = Returned(@, futures[get_call[c].awaits])]
        /\ UNCHANGED <<cache, pending_requests, futures, popular_keys>>
        /\ UNCHANGED otherThanCache

\* the finally of get owns the lock: self._pending_requests.pop(key, None)
ClearPending ==
    \E c \in GetCalls :
        /\ get_call[c].pc = "finally"
        /\ lock.holder = c
        /\ pending_requests' = PopPending(pending_requests, get_call[c].key)
        /\ futures' = [futures EXCEPT ![c] = "none"]
        /\ lock' = Release(lock)
        /\ get_call' = [get_call EXCEPT ![c] = Returned(@, get_call[c].outcome)]
        /\ UNCHANGED <<cache, popular_keys>>
        /\ UNCHANGED otherThanCache

\* datetime.now() passes the expires_at of an entry
EntryExpires ==
    \E i \in 1..Len(cache) :
        /\ ~cache[i].expired
        /\ cache' = [cache EXCEPT ![i].expired = TRUE]
        /\ UNCHANGED <<pending_requests, futures, lock, popular_keys, get_call>>
        /\ UNCHANGED otherThanCache

NextCache ==
    \/ GetCall
    \/ Deduplicate
    \/ FetcherReturns
    \/ FetcherRaises
    \/ WaiterResumes
    \/ ClearPending
    \/ EntryExpires

\* the task running the fetcher of call c is cancelled at 'await fetcher()':
\* CancelledError is not an Exception, so the except clause is passed over and
\* the future stays unset; the finally then takes the lock
FetcherCancelled ==
    \E c \in GetCalls :
        /\ get_call[c].pc = "fetch"
        /\ IF lock.holder = 0
           THEN /\ pending_requests' = PopPending(pending_requests, get_call[c].key)
                /\ futures' = [futures EXCEPT ![c] = "none"]
                /\ get_call' = [get_call EXCEPT ![c] = Returned(@, "cancelled")]
                /\ UNCHANGED lock
           ELSE /\ lock' = [lock EXCEPT !.waiters = Append(@, c)]
                /\ get_call' = [get_call EXCEPT ![c].pc = "finally", ![c].outcome = "cancelled"]
                /\ UNCHANGED <<pending_requests, futures>>
        /\ UNCHANGED <<cache, popular_keys>>
        /\ UNCHANGED otherThanCache

NextCancel == NextCache \/ FetcherCancelled

(***************************************************************************)
(* The other operations of SmartCacheProxy: set, get without a fetcher,    *)
(* invalidate, invalidate_pattern, conditional_get, warm_cache.            *)
(* LRUCache._lock is never held over an await, so every operation of       *)
(* LRUCache runs without interruption, and so does each of these           *)
(* operations but warm_cache, which suspends in each fetcher.  The hit     *)
(* statistics (hit_count, last_accessed, _hits, _misses) are left out.     *)
(***************************************************************************)
\* what callers store with set: a value, with or without an etag
StoreInputs == {[value |-> "v1", etag |-> "None"], [value |-> "v1", etag |-> "e1"]}

\* what the fetchers of warm_cache return
WarmValues == {"v2"}

\* the fetchers dicts given to warm_cache, by their keys
WarmKeys == {{"k2"}}

\* the if_none_match a client sends; "None" is an absent header
ClientTags == {"None", "e1", "e2"}

\* the patterns of invalidate_pattern
Patterns == {"", "k", "k1", "x"}

NoOp == [op |-> "none", result |-> <<>>]

InitStore ==
    /\ warming = {}
    /\ last_op = NoOp
    /\ recency = <<>>

\* SmartCacheProxy.set(key, value, etag=etag)
StoreSet ==
    \E key \in StoreKeys, input \in StoreInputs :
        /\ last_op' = [op |-> "set", result |-> <<>>]
        /\ cache' = LRUSetTagged(cache, key, input.value, input.etag)
        /\ UNCHANGED <<pending_requests, futures, lock, popular_keys, get_call, warming, recency>>
        /\ UNCHANGED <<brokerVars, hubVars, readVars>>

\* SmartCacheProxy.get(key) without a fetcher
StoreGet ==
    \E key \in CacheKeys :
        LET looked == LRUGet(cache, key) IN
        /\ popular_keys[key] < MaxStoreGets
        /\ last_op' = [op |-> "get", result |-> <<looked.value, looked.branch>>]
        /\ popular_keys' = [popular_keys EXCEPT ![key] = @ + 1]
        /\ cache' = looked.cache
        /\ UNCHANGED <<pending_requests, futures, lock, get_call, warming, recency>>
        /\ UNCHANGED <<brokerVars, hubVars, readVars>>

\* SmartCacheProxy.invalidate(key): LRUCache.delete
StoreInvalidate ==
    \E key \in StoreKeys :
        /\ last_op' = [op |-> "invalidate", result |-> <<CacheHas(cache, key)>>]
        /\ cache' = CacheDelete(cache, key)
        /\ UNCHANGED <<pending_requests, futures, lock, popular_keys, get_call, warming, recency>>
        /\ UNCHANGED <<brokerVars, hubVars, readVars>>

\* SmartCacheProxy.invalidate(key) beside the get calls: a call whose fetcher
\* is running for the key keeps in its history that the key was invalidated
Invalidate ==
    \E key \in CacheKeys :
        /\ last_op' = [op |-> "invalidate", result |-> <<CacheHas(cache, key)>>]
        /\ cache' = CacheDelete(cache, key)
        /\ get_call' = [c \in GetCalls |->
               IF get_call[c].pc = "fetch" /\ get_call[c].key = key
               THEN [get_call[c] EXCEPT !.invalidated = TRUE]
               ELSE get_call[c]]
        /\ UNCHANGED <<pending_requests, futures, lock, popular_keys, warming, recency>>
        /\ UNCHANGED <<brokerVars, hubVars, readVars>>

NextInvalidate == NextCache \/ Invalidate

KeysToDeleteExact(entries, pattern) ==
    SelectSeq([i \in 1..Len(entries) |-> entries[i].key],
              LAMBDA key : Chars(key) = Chars(pattern))

\* the keys invalidate_pattern collects: key.startswith(pattern)
KeysToDelete(entries, pattern) ==
    SelectSeq([i \in 1..Len(entries) |-> entries[i].key],
              LAMBDA key : StartsWith(Chars(key), Chars(pattern)))

\* the loop of invalidate_pattern over keys_to_delete: the cache afterwards
\* and the count of the deletes that returned True
RECURSIVE DeleteAll(_, _, _)
DeleteAll(entries, keys, count) ==
    IF keys = <<>> THEN [cache |-> entries, count |-> count]
    ELSE DeleteAll(CacheDelete(entries, Head(keys)), Tail(keys),
                   count + (IF CacheHas(entries, Head(keys)) THEN 1 ELSE 0))

\* SmartCacheProxy.invalidate_pattern(pattern): the cache afterwards and the
\* count returned
InvalidatePatternOf(entries, pattern) ==
    DeleteAll(entries, KeysToDelete(entries, pattern), 0)

StoreInvalidatePattern ==
    \E pattern \in Patterns :
        LET done == InvalidatePatternOf(cache, pattern) IN
        /\ last_op' = [op |-> "invalidate_pattern", result |-> <<done.count>>]
        /\ cache' = done.cache
        /\ UNCHANGED <<pending_requests, futures, lock, popular_keys, get_call, warming, recency>>
        /\ UNCHANGED <<brokerVars, hubVars, readVars>>

ConditionalGetOfAnyMatch(entries, key, if_none_match) ==
    IF ~CacheHas(entries, key)
    THEN [cache |-> entries, result |-> <<"None", "None", FALSE>>, branch |-> "absent"]
    ELSE LET entry == CacheEntryOf(entries, key) IN
         IF entry.expired
         THEN [cache |-> CacheDelete(entries, key), result |-> <<"None", "None", FALSE>>,
               branch |-> "expired"]
         ELSE IF if_none_match = entry.etag
         THEN [cache |-> entries, result |-> <<"None", entry.etag, TRUE>>,
               branch |-> "not_modified"]
         ELSE [cache |-> entries, result |-> <<entry.value, entry.etag, FALSE>>,
               branch |-> "value"]

ConditionalGetOfDropsStale(entries, key, if_none_match) ==
    IF ~CacheHas(entries, key)
    THEN [cache |-> entries, result |-> <<"None", "None", FALSE>>, branch |-> "absent"]
    ELSE LET entry == CacheEntryOf(entries, key) IN
         IF entry.expired \/ (if_none_match # "None" /\ if_none_match # entry.etag)
         THEN [cache |-> CacheDelete(entries, key), result |-> <<"None", "None", FALSE>>,
               branch |-> "expired"]
         ELSE IF if_none_match # "None" /\ entry.etag # "None" /\ if_none_match = entry.etag
         THEN [cache |-> entries, result |-> <<"None", entry.etag, TRUE>>,
               branch |-> "not_modified"]
         ELSE [cache |-> entries, result |-> <<entry.value, entry.etag, FALSE>>,
               branch |-> "value"]

\* SmartCacheProxy.conditional_get(key, if_none_match): the cache afterwards,
\* the tuple (value, etag, not_modified) returned, and the return statement
\* taken; "None" stands for the tags that are false in a condition (None, the
\* empty string).  get_entry and delete take a lock that is free, so nothing
\* runs between the read of the entry and its deletion.
ConditionalGetOf(entries, key, if_none_match) ==
    IF ~CacheHas(entries, key)
    THEN [cache |-> entries, result |-> <<"None", "None", FALSE>>, branch |-> "absent"]
    ELSE LET entry == CacheEntryOf(entries, key) IN
         IF entry.expired
         THEN [cache |-> CacheDelete(entries, key), result |-> <<"None", "None", FALSE>>,
               branch |-> "expired"]
         ELSE IF if_none_match # "None" /\ entry.etag # "None" /\ if_none_match = entry.etag
         THEN [cache |-> entries, result |-> <<"None", entry.etag, TRUE>>,
               branch |-> "not_modified"]
         ELSE [cache |-> entries, result |-> <<entry.value, entry.etag, FALSE>>,
               branch |-> "value"]

ConditionalGet ==
    \E key \in StoreKeys, if_none_match \in ClientTags :
        LET got == ConditionalGetOf(cache, key, if_none_match) IN
        /\ last_op' = [op |-> "conditional_get", result |-> Append(got.result, got.branch)]
        /\ cache' = got.cache
        /\ UNCHANGED <<pending_requests, futures, lock, popular_keys, get_call, warming, recency>>
        /\ UNCHANGED <<brokerVars, hubVars, readVars>>

\* SmartCacheProxy.warm_cache(fetchers), up to the suspension of each
\* warm_single in its fetcher
WarmCache ==
    \E keys \in WarmKeys :
        /\ keys \cap warming = {}
        /\ warming' = warming \cup keys
        /\ UNCHANGED <<cacheVars, last_op, recency>>
        /\ UNCHANGED <<brokerVars, hubVars, readVars>>

\* the fetcher of a warm_single returns: self.set(key, value)
WarmReturns ==
    \E key \in warming, value \in WarmValues :
        /\ warming' = warming \ {key}
        /\ cache' = LRUSetTagged(cache, key, value, "None")
        /\ UNCHANGED <<pending_requests, futures, lock, popular_keys, get_call>>
        /\ UNCHANGED <<last_op, recency>>
        /\ UNCHANGED <<brokerVars, hubVars, readVars>>

\* the fetcher of a warm_single raises: results[key] = False
WarmRaises ==
    \E key \in warming :
        /\ warming' = warming \ {key}
        /\ UNCHANGED <<cacheVars, last_op, recency>>
        /\ UNCHANGED <<brokerVars, hubVars, readVars>>

NextStore ==
    \/ StoreSet
    \/ StoreGet
    \/ StoreInvalidate
    \/ StoreInvalidatePattern
    \/ ConditionalGet
    \/ WarmCache
    \/ WarmReturns
    \/ WarmRaises
    \/ EntryExpires

(***************************************************************************)
(* The eviction order of LRUCache, on a cache built with one more place    *)
(* than MaxSize and used with four keys: set and get without a fetcher.    *)
(***************************************************************************)
LruSize == MaxSize + 1

LruKeys == StoreKeys \cup {"x"}

\* the key has just been set or read: it is the most recently touched one of
\* the keys that are stored
Touched(order, key, entries) ==
    LET others == SelectSeq(order, LAMBDA k : k # key /\ CacheHas(entries, k))
    IN  IF CacheHas(entries, key) THEN Append(others, key) ELSE others

\* SmartCacheProxy.set(key, value)
LruSet ==
    \E key \in LruKeys :
        /\ last_op' = [op |-> "set", result |-> <<>>]
        /\ cache' = LRUSetSized(LruSize, cache, key, "v1", "None")
        /\ recency' = Touched(recency, key, cache')
        /\ UNCHANGED <<pending_requests, futures, lock, popular_keys, get_call, warming>>
        /\ UNCHANGED <<brokerVars, hubVars, readVars>>

\* SmartCacheProxy.get(key) without a fetcher
LruGet ==
    \E key \in CacheKeys :
        LET looked == LRUGet(cache, key) IN
        /\ popular_keys[key] < MaxStoreGets
        /\ last_op' = [op |-> "get", result |-> <<looked.value, looked.branch>>]
        /\ popular_keys' = [popular_keys EXCEPT ![key] = @ + 1]
        /\ cache' = looked.cache
        /\ recency' = IF looked.branch = "hit" THEN Touched(recency, key, cache')
                      ELSE SelectSeq(recency, LAMBDA k : CacheHas(cache', k))
        /\ UNCHANGED <<pending_requests, futures, lock, get_call, warming>>
        /\ UNCHANGED <<brokerVars, hubVars, readVars>>

NextLru ==
    \/ LruSet
    \/ LruGet

(***************************************************************************)
(* WebSubHub (websub.py).                                                  *)
(* WebSubHub._lock is only ever held over code that does not await, so it  *)
(* is never contended; the hub suspends at the verification GET and at the *)
(* content POST.  A response body is a sequence of characters; a lease of  *)
(* 0 in a request stands for an absent hub.lease_seconds.                  *)
(***************************************************************************)
HubCallbacks == {"cb1", "cb2"}

\* the topics get_websub_hub registers
DefaultTopics ==
    {"alerts.all", "alerts.critical", "alerts.high", "alerts.cms",
     "alerts.framework", "alerts.plugin", "alerts.shopping_cart"}

HubTopicUniverse == DefaultTopics \cup {"alerts.forum", "system.status"}

HubRequests ==
    {[mode |-> "subscribe", callback |-> "cb1", topic |-> t, lease |-> 1] :
        t \in {"alerts.cms", "alerts.forum", "system.status"}}
    \cup {[mode |-> "subscribe", callback |-> "cb2", topic |-> "alerts.cms", lease |-> 0],
          [mode |-> "unsubscribe", callback |-> "cb1", topic |-> "alerts.cms", lease |-> 0],
          [mode |-> "unsubscribe", callback |-> "cb1", topic |-> "alerts.forum", lease |-> 0],
          [mode |-> "publish", callback |-> "cb1", topic |-> "alerts.cms", lease |-> 0],
          [mode |-> "publish", callback |-> "cb1", topic |-> "system.status", lease |-> 0]}

\* the requests of subscribers that follow the protocol for a default topic
FlowRequests ==
    {[mode |-> "subscribe", callback |-> "cb1", topic |-> "alerts.cms", lease |-> 1],
     [mode |-> "subscribe", callback |-> "cb2", topic |-> "alerts.cms", lease |-> 0],
     [mode |-> "unsubscribe", callback |-> "cb1", topic |-> "alerts.cms", lease |-> 0]}

HubPublishTopics == {"alerts.cms", "alerts.forum"}

\* the challenge of a verification, and the bodies a callback may answer with
Challenge == <<"t", "k">>

Bodies == {Challenge, <<" ", "t", "k", "\n">>, <<"x">>}

Responses ==
    {[error |-> FALSE, status |-> 200, body |-> b] : b \in Bodies}
    \cup {[error |-> FALSE, status |-> 404, body |-> Challenge]}

PushOutcomes == {200, 204, 500, 0}        \* 0: the POST raised

IsSpace(ch) == ch \in {" ", "\n", "\t", "\r"}

\* str.strip()
RECURSIVE Strip(_)
Strip(s) ==
    IF s = <<>> THEN s
    ELSE IF IsSpace(Head(s)) THEN Strip(Tail(s))
    ELSE IF IsSpace(s[Len(s)]) THEN Strip(SubSeq(s, 1, Len(s) - 1))
    ELSE s

\* the subscriber answered with a success status and a body carrying the challenge
ChallengeEchoed(response) ==
    ~response.error /\ response.status = 200 /\ Strip(response.body) = Challenge

NoAnswer == [mode |-> "none", error |-> FALSE, status |-> 0, body |-> <<>>, accepted |-> FALSE]

InitHub ==
    /\ hub_topics = [t \in HubTopicUniverse |->
                        [registered |-> t \in DefaultTopics, subscriber_count |-> 0]]
    /\ hub_subscriptions = [t \in HubTopicUniverse |-> <<>>]
    /\ subs = <<>>
    /\ verifications = {}
    /\ hub_pub = <<>>
    /\ now = 0
    /\ requests = 0
    /\ reply = 0
    /\ pushes = <<>>
    /\ echoed = {}
    /\ answered = NoAnswer

\* topic_subs.get(callback): the number of the subscription object, or 0
DictGet(d, callback) ==
    IF \E i \in 1..Len(d) : d[i].callback = callback
    THEN d[CHOOSE i \in 1..Len(d) : d[i].callback = callback].sub
    ELSE 0

\* topic_subs[callback] = subscription: a key that is present keeps its position
DictSet(d, callback, sub) ==
    IF DictGet(d, callback) # 0
    THEN [i \in 1..Len(d) |->
            IF d[i].callback = callback THEN [callback |-> callback, sub |-> sub] ELSE d[i]]
    ELSE Append(d, [callback |-> callback, sub |-> sub])

DictPopKeeps(d, callback) == d

\* topic_subs.pop(callback, None)
DictPop(d, callback) == SelectSeq(d, LAMBDA e : e.callback # callback)

\* list(topic_subs.values())
DictValues(d) == [i \in 1..Len(d) |-> d[i].sub]

\* WebSubSubscription.is_expired
IsExpired(subscription) == now > subscription.created_at + subscription.lease_seconds

\* self.register_topic(topic)
RegisterTopic(topics, topic) ==
    [topics EXCEPT ![topic] = [registered |-> TRUE, subscriber_count |-> 0]]

\* handle_subscription_request with _handle_subscribe and _handle_unsubscribe
ValidModeAny(mode) == TRUE

\* hub_mode in ["subscribe", "unsubscribe"]
ValidMode(mode) == mode \in {"subscribe", "unsubscribe"}

HandleRequestWithin(limit, req) ==
    LET alerts == StartsWith(Chars(req.topic), Chars("alerts."))
        unknown == ~hub_topics[req.topic].registered /\ ~alerts
        topics == IF unknown /\ alerts THEN RegisterTopic(hub_topics, req.topic)
                  ELSE hub_topics
    IN
    /\ requests < limit
    /\ requests' = requests + 1
    /\ IF ~ValidMode(req.mode)
       THEN /\ reply' = 400
            /\ UNCHANGED <<hub_topics, subs, verifications>>
       ELSE IF unknown /\ ~alerts
       THEN /\ reply' = 404
            /\ UNCHANGED <<hub_topics, subs, verifications>>
       ELSE IF req.mode = "subscribe"
       THEN /\ subs' = Append(subs,
                    [callback_url |-> req.callback, topic |-> req.topic,
                     lease_seconds |-> IF req.lease = 0 THEN WebsubLeaseSeconds
                                       ELSE req.lease,
                     created_at |-> now, verified |-> FALSE])
            /\ verifications' = verifications \cup
                    {[sub |-> Len(subs) + 1, mode |-> "subscribe"]}
            /\ reply' = 202
            /\ hub_topics' = topics
       ELSE LET found == DictGet(hub_subscriptions[req.topic], req.callback) IN
            /\ IF found = 0
               THEN /\ reply' = 404
                    /\ UNCHANGED verifications
               ELSE /\ reply' = 202
                    /\ verifications' = verifications \cup
                          {[sub |-> found, mode |-> "unsubscribe"]}
            /\ hub_topics' = topics
            /\ UNCHANGED subs
    /\ UNCHANGED <<hub_subscriptions, hub_pub, now, pushes, echoed, answered>>
    /\ UNCHANGED otherThanHub

HandleRequest(req) == HandleRequestWithin(MaxHubRequests, req)

HandleSubscriptionRequest == \E req \in FlowRequests : HandleRequest(req)

\* requests of every kind, the ones the hub rejects included
HandleAnyRequest == \E req \in HubRequests : HandleRequest(req)

VerificationAcceptedAlways(response) == TRUE

VerificationAcceptedAnyStatus(response) == Strip(response.body) = Challenge

VerificationAcceptedAnyBody(response) == response.status = 200

\* response.status_code == 200 and response.text.strip() == challenge
VerificationAccepted(response) ==
    response.status = 200 /\ Strip(response.body) = Challenge

\* _verify_subscription from the response of the GET on
Verify(task, response) ==
    LET subscription == subs[task.sub]
        topic == subscription.topic
        installed == DictSet(hub_subscriptions[topic], subscription.callback_url, task.sub)
    IN
    /\ task \in verifications
    /\ verifications' = verifications \ {task}
    /\ echoed' = IF task.mode = "subscribe" /\ ChallengeEchoed(response)
                 THEN echoed \cup {<<topic, subscription.callback_url>>}
                 ELSE echoed
    /\ IF ~response.error /\ VerificationAccepted(response)
       THEN /\ subs' = [subs EXCEPT ![task.sub].verified = TRUE]
            /\ IF task.mode = "subscribe"
               THEN /\ hub_subscriptions' = [hub_subscriptions EXCEPT ![topic] = installed]
                    /\ hub_topics' =
                          IF hub_topics[topic].registered
                          THEN [hub_topics EXCEPT ![topic].subscriber_count = Len(installed)]
                          ELSE hub_topics
               ELSE /\ hub_subscriptions' = [hub_subscriptions EXCEPT ![topic] =
                                                DictPop(@, subscription.callback_url)]
                    /\ UNCHANGED hub_topics
       ELSE UNCHANGED <<subs, hub_subscriptions, hub_topics>>
    /\ UNCHANGED <<hub_pub, now, requests, reply, pushes>>
    /\ UNCHANGED otherThanHub

VerifyResponds ==
    \E task \in verifications, response \in Responses :
        Verify(task, response) /\ UNCHANGED answered

\* the GET timed out or failed: except Exception
VerifyErrors ==
    \E task \in verifications :
        /\ Verify(task, [error |-> TRUE, status |-> 0, body |-> <<>>])
        /\ UNCHANGED answered

\* the outcomes of a verification GET: the responses, and the exception
VerificationOutcomes == Responses \cup {[error |-> TRUE, status |-> 0, body |-> <<>>]}

\* a verification ends, and its answer is kept for inspection
VerifyAnswered ==
    \E task \in verifications, response \in VerificationOutcomes :
        /\ Verify(task, response)
        /\ answered' = [mode |-> task.mode, error |-> response.error,
                        status |-> response.status, body |-> response.body,
                        accepted |-> ~response.error /\ VerificationAccepted(response)]

\* the loop of publish up to its next push: expired entries are popped and skipped
RECURSIVE PruneToNext(_, _)
PruneToNext(todo, d) ==
    IF todo = <<>> THEN [todo |-> <<>>, dict |-> d, cur |-> 0]
    ELSE IF IsExpired(subs[Head(todo)])
    THEN PruneToNext(Tail(todo), DictPop(d, subs[Head(todo)].callback_url))
    ELSE [todo |-> Tail(todo), dict |-> d, cur |-> Head(todo)]

\* the push of _deliver_content, as sent: the answer is still to come
Push(p, sub) ==
    [pub |-> p, sub |-> sub, topic |-> subs[sub].topic, callback |-> subs[sub].callback_url,
     answer |-> "none"]

\* publish p goes on with its loop; 'listed' is list(topic_subs.values()) as
\* publish took it, 'sent' the pushes as they stand when the step begins, and
\* 'expired' the subscriptions the loop has found expired so far
LoopHub(p, topic, listed, todo, successful, sent) ==
    LET next == PruneToNext(todo, hub_subscriptions[topic])
        skipped == SubSeq(todo, 1, Len(todo) - Len(next.todo) - (IF next.cur = 0 THEN 0 ELSE 1))
        rec == [topic |-> topic, listed |-> listed, todo |-> next.todo, cur |-> next.cur,
                expired |-> (IF p > Len(hub_pub) THEN <<>> ELSE hub_pub[p].expired) \o skipped,
                successful |-> successful,
                pc |-> IF next.cur = 0 THEN "done" ELSE "post"]
    IN  /\ hub_subscriptions' = [hub_subscriptions EXCEPT ![topic] = next.dict]
        /\ hub_pub' = IF p > Len(hub_pub) THEN Append(hub_pub, rec)
                      ELSE [hub_pub EXCEPT ![p] = rec]
        /\ pushes' = IF next.cur = 0 THEN sent ELSE Append(sent, Push(p, next.cur))

ListedSkipsLeaving(topic) ==
    SelectSeq(DictValues(hub_subscriptions[topic]),
              LAMBDA sub : [sub |-> sub, mode |-> "unsubscribe"] \notin verifications)

ListedWithPending(topic) ==
    SelectSeq([i \in 1..Len(subs) |-> i],
              LAMBDA sub : /\ subs[sub].topic = topic
                           /\ \/ DictGet(hub_subscriptions[topic], subs[sub].callback_url) = sub
                              \/ [sub |-> sub, mode |-> "subscribe"] \in verifications)

\* list(topic_subs.values()), as publish takes it before its loop
Listed(topic) == DictValues(hub_subscriptions[topic])

\* WebSubHub.publish(topic, content), up to its first POST
HubPublish ==
    \E topic \in HubPublishTopics :
        /\ Len(hub_pub) < MaxHubPublish
        /\ LoopHub(Len(hub_pub) + 1, topic, Listed(topic), Listed(topic), 0, pushes)
        /\ UNCHANGED <<hub_topics, subs, verifications, now, requests, reply, echoed, answered>>
        /\ UNCHANGED otherThanHub

DeliveredAny(status) == TRUE

\* response.status_code in [200, 201, 202, 204]; status 0 stands for the exception
Delivered(status) == status \in {200, 201, 202, 204}

\* what the subscriber answered to a push, as the log keeps it: an
\* acknowledgement (200, 201, 202, 204), or a failure (another status, or the
\* exception, status 0)
Answer(status) == IF status \in {200, 201, 202, 204} THEN "acknowledged" ELSE "failed"

\* the push of publish p that is awaiting its answer
PendingPush(p) ==
    CHOOSE i \in 1..Len(pushes) : pushes[i].pub = p /\ pushes[i].answer = "none"

\* the POST of a publish ends; the publish goes on to its next subscription
PushResponds ==
    \E p \in 1..Len(hub_pub), status \in PushOutcomes :
        /\ hub_pub[p].pc = "post"
        /\ LoopHub(p, hub_pub[p].topic, hub_pub[p].listed, hub_pub[p].todo,
                   hub_pub[p].successful + (IF Delivered(status) THEN 1 ELSE 0),
                   [pushes EXCEPT ![PendingPush(p)].answer = Answer(status)])
        /\ UNCHANGED <<hub_topics, subs, verifications, now, requests, reply, echoed, answered>>
        /\ UNCHANGED otherThanHub

\* get_topic_info(topic): None for a topic that is not in _topics, else the
\* record of the topic with the subscriber_count counted from the table
TopicInfo(topics, table, topic) ==
    IF topics[topic].registered
    THEN [found |-> TRUE, subscriber_count |-> Len(table[topic])]
    ELSE [found |-> FALSE, subscriber_count |-> 0]

GetTopicInfo(topic) == TopicInfo(hub_topics, hub_subscriptions, topic)

\* time passes: two seconds
Tick ==
    /\ now < 2 * MaxTicks
    /\ now' = now + 2
    /\ UNCHANGED <<hub_topics, hub_subscriptions, subs, verifications, hub_pub,
                   requests, reply, pushes, echoed, answered>>
    /\ UNCHANGED otherThanHub

NextHub ==
    \/ HandleSubscriptionRequest
    \/ VerifyResponds
    \/ VerifyErrors
    \/ HubPublish
    \/ PushResponds
    \/ Tick

Init == InitBroker /\ InitCache /\ InitHub /\ InitRead /\ InitStore

SpecBroker == Init /\ [][NextBroker]_vars

SpecFeed == Init /\ [][NextFeed]_vars

SpecAlert == Init /\ [][NextAlert]_vars

\* the cache and the hub never read the broker's state
InitOther == Init /\ set_order = <<"ws_1", "sub_1">>

SpecCache == InitOther /\ [][NextCache]_vars

\* the cache when no task is cancelled: a fetcher that was called ends, and
\* every call that can take a step takes it in the end
SpecCacheFair ==
    /\ SpecCache
    /\ WF_vars(Deduplicate)
    /\ WF_vars(FetcherReturns \/ FetcherRaises)
    /\ WF_vars(WaiterResumes)
    /\ WF_vars(ClearPending)

\* the cache with cancellation of the fetching task; every call that can take
\* a step takes it in the end
SpecCancel == InitOther /\ [][NextCancel]_vars

SpecCancelFair ==
    /\ SpecCancel
    /\ WF_vars(Deduplicate)
    /\ WF_vars(FetcherReturns \/ FetcherRaises \/ FetcherCancelled)
    /\ WF_vars(WaiterResumes)
    /\ WF_vars(ClearPending)

SpecHub == InitOther /\ [][NextHub]_vars

\* the hub with a request more: two subscribers of a topic and a request that
\* arrives while a publish is in progress
RaceRequest == \E req \in FlowRequests : HandleRequestWithin(MaxRaceRequests, req)

NextHubRace ==
    \/ RaceRequest
    \/ VerifyResponds
    \/ VerifyErrors
    \/ HubPublish
    \/ PushResponds
    \/ Tick

SpecHubRace == InitOther /\ [][NextHubRace]_vars

\* the hub as it answers requests of every kind
NextHubGate ==
    \/ HandleAnyRequest
    \/ VerifyAnswered

SpecHubGate == InitOther /\ [][NextHubGate]_vars

SpecHistory == InitOther /\ [][NextHistory]_vars

SpecStore == InitOther /\ [][NextStore]_vars

SpecLru == InitOther /\ [][NextLru]_vars

\* get with a fetcher next to warm_cache
NextWarm == NextCache \/ WarmCache \/ WarmReturns \/ WarmRaises

SpecWarm == InitOther /\ [][NextWarm]_vars

SpecInvalidate == InitOther /\ [][NextInvalidate]_vars

\* the event producer next to a WebSocket feed and the subscribers of the hub:
\* main.py imports
\* publish_exploit_alert from services.pubsub, whose publishes go to the
\* broker; no caller of WebSubHub.publish exists but the function of the same
\* name in services.websub, which nothing calls
NextProducer ==
    \/ WsConnect
    \/ PublishAlert
    \/ InvokeAsync
    \/ CallbackReturns
    \/ HandleSubscriptionRequest
    \/ VerifyResponds

SpecProducer == Init /\ [][NextProducer]_vars

(***************************************************************************)
(* Claims about the broker.                                                *)
(***************************************************************************)
\* get_subscriber_count(topic)
GetSubscriberCount(topic) == Cardinality(topic_subscribers[topic])

\* how often subscriber s was invoked with the message of publish p
Invoked(s, p) == Cardinality({i \in 1..Len(received[s]) : received[s][i].msg = p})

\* P is the dotted path of the first k parts of T, for some k in ks
DottedPrefix(P, T, ks) == \E k \in ks : P = Join(SubSeq(Split(T), 1, k))

\* the topic set holds a wildcard 'P.*' with P among the first-k paths of T
HasWildcard(topics, T, ks) ==
    \E w \in topics :
        /\ EndsWith(Chars(w), Chars(".*"))
        /\ DottedPrefix(DropLast2(Chars(w)), Chars(T), ks)

HasCatchAll(topics, T) ==
    "alerts.all" \in topics /\ StartsWith(Chars(T), Chars("alerts."))

\* a filter accepts a payload: every filter key is in the payload, with a value
\* equal to the scalar or among the items of the list
FilterAccepts(payload, filters) ==
    \A f \in filters :
        \E e \in payload :
            /\ e.key = f.key
            /\ IF f.list THEN e.value \in {f.items[i] : i \in 1..Len(f.items)}
               ELSE e.value = f.value

\* publish p has returned and no subscribe or unsubscribe ran since it was called
Undisturbed(p) == pub[p].pc = "done" /\ pub[p].quiet

\* C4: the topic index and the subscriber table agree: an id in the index set
\* of topic t is a registered subscriber with t in its own topic set (so after
\* unsubscribe(s) with topics omitted s is in no index set and counted nowhere).
C4_IndexAgreesWithSubscribers ==
    \A t \in TopicUniverse :
        \A s \in topic_subscribers[t] :
            subscribers[s].registered /\ t \in subscribers[s].topics

\* C5: a callback is invoked only for a subscriber whose current registration
\* matches the topic: its topic set holds T, or 'P.*' for a proper dotted
\* ancestor P of T, or 'alerts.all' while T starts with 'alerts.'.
C5_OnlyCurrentRegistrations ==
    [][\A s \in SubIds :
          Len(received'[s]) > Len(received[s]) =>
            LET T == published[received'[s][Len(received'[s])].msg].topic
                topics == subscribers[s].topics
            IN  /\ subscribers[s].registered
                /\ \/ T \in topics
                   \/ HasWildcard(topics, T, 1..(Len(Split(Chars(T))) - 1))
                   \/ HasCatchAll(topics, T)]_vars

\* C6: with no subscribe or unsubscribe interleaved, publish(T, payload) has
\* invoked every registered subscriber whose filter accepts the payload and
\* whose topic set holds T, 'P.*' for a dotted prefix P of T, or 'alerts.all'
\* while T starts with 'alerts.'.
C6_EveryMatchingSubscriberInvoked ==
    \A p \in 1..Len(pub) :
        Undisturbed(p) =>
            \A s \in SubIds :
                LET T == published[p].topic
                    topics == subscribers[s].topics
                IN  ( /\ subscribers[s].registered
                      /\ FilterAccepts(published[p].payload, subscribers[s].filters)
                      /\ \/ T \in topics
                         \/ HasWildcard(topics, T, 1..Len(Split(Chars(T))))
                         \/ HasCatchAll(topics, T) )
                    => Invoked(s, p) >= 1

\* a publish to alerts.cms reached one subscriber through 'alerts.*' and the
\* other through 'alerts.all'
C6_Witness ==
    \E p \in 1..Len(pub) :
        /\ Undisturbed(p)
        /\ published[p].topic = "alerts.cms"
        /\ subscribers["ws_1"].registered /\ subscribers["ws_1"].topics = {"alerts.*"}
        /\ subscribers["sub_1"].registered /\ subscribers["sub_1"].topics = {"alerts.all"}
        /\ Invoked("ws_1", p) = 1 /\ Invoked("sub_1", p) = 1

\* the state part of C7
C7_ExactlyOncePerMatch ==
    \A p \in 1..Len(pub) : \A s \in SubIds :
        /\ Invoked(s, p) <= 1
        /\ ( /\ Undisturbed(p)
             /\ subscribers[s].registered
             /\ s \in DeliveryIds(topic_subscribers, published[p].topic) )
           => Invoked(s, p) =
                 IF FilterAccepts(published[p].payload, subscribers[s].filters)
                 THEN 1 ELSE 0

\* C7: a subscriber matched by topic is invoked iff its filter accepts the
\* payload (every filter key present, value equal to the scalar or in the
\* list), exactly once per publish; a step of the delivery loop, a mismatch
\* included, changes nothing of the subscriber table, the index or the history.
C7_FilterDecidesDelivery ==
    /\ []C7_ExactlyOncePerMatch
    /\ [][\A s \in SubIds :
            Len(received'[s]) > Len(received[s]) =>
                FilterAccepts(published[received'[s][Len(received'[s])].msg].payload,
                              subscribers[s].filters)]_vars
    /\ [][(\E p \in 1..Len(pub) : pub'[p].ids # pub[p].ids) =>
            UNCHANGED <<subscribers, topic_subscribers, message_history>>]_vars

\* the list filter rejected severity "low" for sub_1 while ws_1 got the message
C7_Witness ==
    \E p \in 1..Len(pub) :
        /\ Undisturbed(p)
        /\ published[p].payload = {[key |-> "severity", value |-> "low"]}
        /\ subscribers["sub_1"].registered
        /\ subscribers["sub_1"].filters = ListFilter
        /\ "sub_1" \in DeliveryIds(topic_subscribers, published[p].topic)
        /\ Invoked("sub_1", p) = 0
        /\ Invoked("ws_1", p) = 1

\* C8: a callback that raises is contained: the publish does not fail, the
\* subscriber that raised stays registered, and every matching subscriber has
\* been invoked once the publish returns.
C8_RaiseIsContained ==
    /\ \A p \in 1..Len(pub) : pub[p].pc # "failed"
    /\ \A r \in raised :
          pub[r.pub].quiet => subscribers[r.sub].registered
    /\ \A r \in raised : \A s \in r.pending :
          ( /\ Undisturbed(r.pub)
            /\ subscribers[s].registered
            /\ FilterAccepts(published[r.pub].payload, subscribers[s].filters) )
          => Invoked(s, r.pub) = 1

\* a callback raised with another subscriber still to come, and that one was
\* invoked before the publish returned
C8_Witness ==
    \E r \in raised : \E s \in r.pending :
        /\ Undisturbed(r.pub)
        /\ Invoked(s, r.pub) = 1
        /\ subscribers[r.sub].registered

\* C9: a subscriber that receives the messages of two publish calls receives
\* them in the order of the calls.
C9_DeliveryFollowsPublishOrder ==
    \A s \in SubIds :
        \A i, j \in 1..Len(received[s]) :
            i < j => received[s][i].msg < received[s][j].msg

\* the last n elements of a sequence
LastN(seq, n) == IF Len(seq) <= n THEN seq ELSE SubSeq(seq, Len(seq) - n + 1, Len(seq))

\* C10: the history holds at most max_history messages: the most recently
\* published ones, in publish order.
C10_HistoryIsRecentWindow ==
    /\ Len(message_history) <= MaxHistory
    /\ message_history = LastN(published, MaxHistory)

\* more than max_history messages were published: the first one was dropped
C10_Witness ==
    /\ Len(published) = MaxHistory + 1
    /\ Len(message_history) = MaxHistory
    /\ message_history[1].id = 2

\* the retained messages that pass the topic and since filters of a call
MatchingHistory(result) ==
    SelectSeq(result.retained,
        LAMBDA m : /\ result.topic \in {"", "alerts.all", m.topic}
                   /\ m.id >= result.since)

\* C11: for every limit >= 0, limit = 0 included, get_history returns at most
\* limit messages: the last limit messages of the retained history that match
\* the topic and since filters, in publish order, newest last.
C11_HistoryReturnsLastLimit ==
    history_result.asked =>
        /\ Len(history_result.messages) <= history_result.limit
        /\ history_result.messages =
              LastN(MatchingHistory(history_result), history_result.limit)

(***************************************************************************)
(* Claims about the cache.                                                 *)
(***************************************************************************)
\* the calls whose fetcher is running for the key
Fetching(key) == {c \in GetCalls : get_call[c].pc = "fetch" /\ get_call[c].key = key}

\* call c was given a fetcher and found nothing cached
MissedWithFetcher(c) ==
    get_call[c].pc # "idle" /\ get_call[c].fetcher /\ get_call[c].missed

\* C2: at any moment at most one fetcher invocation started by get is in
\* progress for a key; a get that misses while a fetch for its key is in
\* progress never calls its own fetcher, and returns only once that fetch has
\* ended, with the outcome of that fetch.
C2_OneFetchInProgressPerKey ==
    /\ \A key \in CacheKeys : Cardinality(Fetching(key)) <= 1
    /\ \A c \in GetCalls :
          MissedWithFetcher(c) /\ get_call[c].during # 0 =>
              /\ ~get_call[c].invoked
              /\ get_call[c].pc = "returned" =>
                    /\ get_call[get_call[c].during].pc \in {"finally", "returned"}
                    /\ get_call[c].outcome = get_call[get_call[c].during].outcome

\* a get missed during another call's fetch, waited for it and has returned
C2_Witness ==
    \E c \in GetCalls :
        /\ MissedWithFetcher(c)
        /\ get_call[c].during # 0
        /\ get_call[c].pc = "returned"
        /\ get_call[c].outcome = "raise"

\* call c was given a fetcher and nothing was stored under its key
NotCachedWithFetcher(c) ==
    get_call[c].pc # "idle" /\ get_call[c].fetcher /\ ~get_call[c].stored

\* C3: two overlapping get calls for the same key, both given a fetcher and
\* both made while nothing is cached under the key, do not both invoke the
\* fetcher, and once both have returned they have the same outcome (the same
\* value or the same error).
C3_OverlappingGetsShareOneFetch ==
    \A c \in GetCalls : \A d \in get_call[c].overlaps :
        /\ NotCachedWithFetcher(c)
        /\ NotCachedWithFetcher(d)
        /\ get_call[c].key = get_call[d].key
        => /\ ~(get_call[c].invoked /\ get_call[d].invoked)
           /\ get_call[c].pc = "returned" /\ get_call[d].pc = "returned"
                 => get_call[c].outcome = get_call[d].outcome

(***************************************************************************)
(* Claims about the hub.                                                   *)
(***************************************************************************)
\* the entries of the hub's subscription table, over all topics
TableEntries ==
    UNION {{hub_subscriptions[t][i].sub : i \in 1..Len(hub_subscriptions[t])} :
              t \in HubTopicUniverse}

VerificationStep(modes, topics, isEcho) ==
    \E task \in verifications \ verifications' :
        /\ task.mode \in modes
        /\ subs[task.sub].topic \in topics
        /\ \E response \in VerificationOutcomes :
              /\ ChallengeEchoed(response) = isEcho
              /\ Verify(task, response)

\* get_topic_info(topic).subscriber_count of the registered topics
SubscriberCounts(topics, table) ==
    [t \in {u \in HubTopicUniverse : topics[u].registered} |->
        TopicInfo(topics, table, t).subscriber_count]

AcceptedSubscribes == {subs[i].topic : i \in 1..Len(subs)}

\* C13: a subscribe request that the hub accepts for a topic under "alerts."
\* leaves the topic registered: get_topic_info finds it, and once a subscription
\* of the topic is in the table the count it reports is at least one
C13_AlertsTopicAutoRegistered ==
    \A topic \in AcceptedSubscribes :
        /\ GetTopicInfo(topic).found
        /\ hub_subscriptions[topic] # <<>> => GetTopicInfo(topic).subscriber_count >= 1

\* C14: a request whose mode is neither subscribe nor unsubscribe is answered
\* 400, and a subscribe or unsubscribe request for a topic that is neither
\* registered nor under "alerts." is answered 404; in both cases the step
\* schedules no verification and leaves the topic and subscription tables alone
C14_RejectsSynchronously ==
    [][requests' # requests =>
         \A req \in HubRequests :
             LET badMode == req.mode # "subscribe" /\ req.mode # "unsubscribe"
                 badTopic == /\ ~hub_topics[req.topic].registered
                             /\ ~StartsWith(Chars(req.topic), Chars("alerts."))
             IN  (HandleRequest(req) /\ (badMode \/ badTopic)) =>
                     /\ reply' = IF badMode THEN 400 ELSE 404
                     /\ UNCHANGED <<verifications, hub_topics, hub_subscriptions, subs>>]_vars

C14_Witness ==
    /\ requests = 2
    /\ reply = 400
    /\ Len(subs) = 1
    /\ verifications # {}
    /\ subs[1].topic = "alerts.cms"

\* C15: a verification installs or removes a subscription only on an answer
\* with status 200 whose body is the challenge token, character for character
C15_OnlyExactEchoVerifies ==
    answered.accepted => answered.status = 200 /\ answered.body = Challenge

Installed(table) ==
    {<<t, cb>> \in HubTopicUniverse \X HubCallbacks : DictGet(table[t], cb) # 0}

\* the step is the end of an unsubscribe verification for the pair, echoed
UnsubscribeEchoed(pair) ==
    \E task \in verifications \ verifications' :
        /\ task.mode = "unsubscribe"
        /\ subs[task.sub].topic = pair[1]
        /\ subs[task.sub].callback_url = pair[2]
        /\ \E response \in Responses : ChallengeEchoed(response) /\ Verify(task, response)

\* the subscriptions publish p has pushed to
PushedBy(log, p) == {log[i].sub : i \in {j \in 1..Len(log) : log[j].pub = p}}

C18_ExpiredSkippedAndPruned ==
    \A p \in 1..Len(hub_pub) :
        \A i \in 1..Len(hub_pub[p].expired) :
            LET sub == hub_pub[p].expired[i] IN
            /\ sub \notin PushedBy(pushes, p)
            /\ hub_pub[p].pc = "done" =>
                   DictGet(hub_subscriptions[hub_pub[p].topic], subs[sub].callback_url) # sub

\* a publish has returned after it pushed to one subscription and found
\* another, verified one with its lease elapsed
C18_Witness ==
    \E p \in 1..Len(hub_pub) :
        /\ hub_pub[p].pc = "done"
        /\ PushedBy(pushes, p) # {}
        /\ hub_pub[p].expired # <<>>
        /\ subs[hub_pub[p].expired[1]].verified

\* the pushes of publish p, as positions in the log
PushesOf(log, p) == {i \in 1..Len(log) : log[i].pub = p}

\* the pushes of publish p that were answered 200, 201, 202 or 204
Acknowledged(log, p) == {i \in PushesOf(log, p) : log[i].answer = "acknowledged"}

\* the subscriptions publish p listed and did not find expired
Live(p) ==
    {hub_pub[p].listed[i] : i \in 1..Len(hub_pub[p].listed)} \
    {hub_pub[p].expired[i] : i \in 1..Len(hub_pub[p].expired)}

\* C19: in every step of a publish: the publish has made at most one push
\* per subscription; once it has returned, every subscription it listed and did not find expired has had
\* exactly one push, every push has been answered, and the count returned is
\* the number of pushes acknowledged with 200, 201, 202 or 204; the step in
\* which a push fails leaves the entry of its subscription in the table
C19_OnePushEachCountsAcknowledged ==
    [][hub_pub' # hub_pub =>
         /\ \A p \in 1..Len(hub_pub') :
               /\ \A i, j \in PushesOf(pushes', p) : pushes'[i].sub = pushes'[j].sub => i = j
               /\ hub_pub'[p].pc = "done" =>
                     /\ PushedBy(pushes', p) = Live(p)'
                     /\ \A i \in PushesOf(pushes', p) : pushes'[i].answer # "none"
                     /\ hub_pub'[p].successful = Cardinality(Acknowledged(pushes', p))
         /\ \A i \in 1..Len(pushes) :
               (pushes[i].answer = "none" /\ pushes'[i].answer = "failed")
               => /\ DictGet(hub_subscriptions'[pushes[i].topic], pushes[i].callback)
                       = DictGet(hub_subscriptions[pushes[i].topic], pushes[i].callback)
                  /\ hub_pub'[pushes[i].pub].successful = hub_pub[pushes[i].pub].successful
                  /\ \A j \in PushesOf(pushes', pushes[i].pub) :
                         pushes'[j].sub = pushes[i].sub => j = i]_vars

\* a publish has returned 1 after two pushes, the failed one to a
\* subscription that is still installed
C19_Witness ==
    \E p \in 1..Len(hub_pub) :
        /\ hub_pub[p].pc = "done"
        /\ hub_pub[p].successful = 1
        /\ \E i \in PushesOf(pushes, p) \ Acknowledged(pushes, p) :
               DictGet(hub_subscriptions[pushes[i].topic], pushes[i].callback) = pushes[i].sub

\* the subscriptions publish p listed when it was called
ListedBy(pubs, p) == {pubs[p].listed[i] : i \in 1..Len(pubs[p].listed)}

\* C20: a publish lists, when it is called, only subscriptions whose subscribe
\* verification has completed; its list never changes afterwards, it pushes to
\* none but the listed ones, and pushes are made in the steps of a publish only:
\* a subscription verified after the call gets nothing from that publish
C20_LatecomersGetNothing ==
    [][/\ pushes' # pushes => hub_pub' # hub_pub
       /\ hub_pub' # hub_pub =>
            /\ \A p \in 1..Len(hub_pub') :
                  /\ PushedBy(pushes', p) \subseteq ListedBy(hub_pub', p)
                  /\ p <= Len(hub_pub) => ListedBy(hub_pub', p) = ListedBy(hub_pub, p)
            /\ Len(hub_pub') > Len(hub_pub) =>
                  \A sub \in ListedBy(hub_pub', Len(hub_pub')) :
                      /\ subs[sub].verified
                      /\ [sub |-> sub, mode |-> "subscribe"] \notin verifications]_vars

\* a publish has returned after pushing to one subscription, and another
\* subscription of the topic, which the publish had not listed, is installed
C20_Witness ==
    \E p \in 1..Len(hub_pub), sub \in 1..Len(subs) :
        /\ hub_pub[p].pc = "done"
        /\ PushedBy(pushes, p) # {}
        /\ subs[sub].topic = hub_pub[p].topic
        /\ subs[sub].verified
        /\ DictGet(hub_subscriptions[subs[sub].topic], subs[sub].callback_url) = sub
        /\ sub \notin ListedBy(hub_pub, p)

\* C21: the step in which the fetcher of a get raises stores nothing in the
\* cache, gives the error to the fetching call and leaves it on the future for
\* the calls that await it; a call that awaited the future returns the error;
\* when the fetching call returns, the pending slot of its key is empty, and a
\* get with a fetcher that misses while the slot is empty invokes its fetcher
C21_FetcherErrorReachesAllAndSlotClears ==
    [][get_call' # get_call =>
         \A c \in GetCalls :
             LET call == get_call[c]
                 after == get_call'[c]
             IN  /\ (call.pc = "fetch" /\ after.pc # "fetch" /\ after.outcome = "raise") =>
                        /\ cache' = cache
                        /\ after.pc \in {"returned", "finally"}
                        /\ after.pc = "finally" => futures'[c] = "raise"
                 /\ (call.pc = "await_future" /\ after.pc = "returned"
                        /\ futures[call.awaits] = "raise") => after.outcome = "raise"
                 /\ (call.pc = "acquire" /\ after.pc = "returned"
                        /\ futures[pending_requests[call.key]] = "raise") =>
                        after.outcome = "raise"
                 /\ (call.pc # "returned" /\ after.pc = "returned" /\ call.invoked) =>
                        /\ pending_requests'[call.key] = 0
                        /\ call.pc = "finally" => after.outcome = call.outcome
                 /\ (call.pc = "idle" /\ after.pc # "idle" /\ after.fetcher /\ after.missed
                        /\ pending_requests[after.key] = 0 /\ lock.holder = 0) =>
                        after.invoked /\ after.pc = "fetch"]_vars

\* the fetcher of one call raised; the call and a call that awaited its future
\* both returned the error, nothing is stored, and a later call for the key
\* has invoked its fetcher again
C21_Witness ==
    \E c1, c2, c3 \in GetCalls :
        /\ c1 < c2 /\ c2 < c3
        /\ get_call[c1].key = get_call[c2].key /\ get_call[c2].key = get_call[c3].key
        /\ get_call[c1].pc = "returned" /\ get_call[c1].invoked /\ get_call[c1].outcome = "raise"
        /\ get_call[c2].pc = "returned" /\ ~get_call[c2].invoked /\ get_call[c2].outcome = "raise"
        /\ get_call[c2].awaits = c1
        /\ get_call[c3].pc = "fetch"
        /\ ~CacheHas(cache, get_call[c1].key)

(***************************************************************************)
(* Claims about the cache operations.                                      *)
(***************************************************************************)
\* the keys stored in the cache
StoredKeys(entries) == {entries[i].key : i \in 1..Len(entries)}

\* C22: whatever operations have run (set, get, invalidate,
\* invalidate_pattern, conditional_get, warm_cache), the cache holds at most
\* max_size entries, one per key
C22_NeverOverCapacity ==
    /\ Len(cache) <= MaxSize
    /\ Cardinality(StoredKeys(cache)) = Len(cache)

\* the cache is full after a set, with a key that was set or warmed left out
C22_Witness ==
    /\ Len(cache) = MaxSize
    /\ last_op.op = "set"
    /\ StoredKeys(cache) = {"k", "k1"}
    /\ popular_keys["k2"] = 1
    /\ warming = {"k2"}

\* C23: when set stores a new key in a cache that holds max_size entries,
\* exactly one entry leaves the cache, and it is the one whose last set or get
\* hit is the oldest
C23_EvictsLeastRecentlyTouched ==
    [][(Len(cache) = LruSize /\ StoredKeys(cache') \ StoredKeys(cache) # {}) =>
           StoredKeys(cache) \ StoredKeys(cache') = {Head(recency)}]_vars

\* C24: no get that missed and has a fetcher waits for the lock of the proxy
\* while the lock is held by a call that awaits the fetch of another key
C24_OtherKeysDoNotWait ==
    \A c \in GetCalls :
        get_call[c].pc = "acquire" =>
            ~(/\ lock.holder \in GetCalls
              /\ get_call[lock.holder].pc = "await_future"
              /\ get_call[lock.holder].key # get_call[c].key
              /\ futures[get_call[lock.holder].awaits] = "unset")

\* C25: a call that waits for the fetch of another call returns in the end,
\* and the pending slot of a key whose fetch has ended is released in the end,
\* also when the task running the fetcher is cancelled
C25_WaitersReturnAfterCancel ==
    /\ \A c \in GetCalls :
           (get_call[c].pc = "await_future") ~> (get_call[c].pc = "returned")
    /\ \A key \in CacheKeys :
           (pending_requests[key] # 0) ~> (pending_requests[key] = 0)

\* C26: the fetcher of a get and the fetcher of a warm_single are never
\* running for the same key at the same time
C26_OneFetchPerKey ==
    \A key \in CacheKeys : ~(FetchInProgress(key) # 0 /\ key \in warming)

\* C27: on a live entry conditional_get returns (no value, stored tag, TRUE)
\* exactly if the tag is given and equal to the stored etag, and (value,
\* stored tag, FALSE) otherwise; on an absent or expired entry it returns
\* (none, none, FALSE)
C27_ConditionalGetResult ==
    \A key \in StoreKeys, tag \in ClientTags :
        LET result == ConditionalGetOf(cache, key, tag).result IN
        IF Stored(cache, key)
        THEN LET entry == CacheEntryOf(cache, key) IN
             /\ result[3] <=> (tag # "None" /\ tag = entry.etag)
             /\ result[2] = entry.etag
             /\ result[1] = IF result[3] THEN "None" ELSE entry.value
        ELSE result = <<"None", "None", FALSE>>

C27_Witness ==
    /\ last_op.op = "conditional_get"
    /\ last_op.result[3]
    /\ \E i \in 1..Len(cache) : cache[i].etag = "None" /\ ~cache[i].expired

\* the key is stored with an entry whose expiry time has passed
Expired(entries, key) == CacheHas(entries, key) /\ CacheEntryOf(entries, key).expired

\* C28: get and conditional_get return the value of an entry only if the
\* entry has not expired; an expired entry they find is removed and the access
\* is a miss; the passing of an expiry time alone removes no entry
C28_NeverReturnsExpired ==
    /\ [](\A key \in StoreKeys, tag \in ClientTags :
             LET got == LRUGet(cache, key)
                 cond == ConditionalGetOf(cache, key, tag)
             IN  /\ Expired(cache, key) =>
                        /\ got.value = "None" /\ got.branch = "expired"
                        /\ cond.result = <<"None", "None", FALSE>>
                        /\ got.cache = CacheDelete(cache, key)
                        /\ cond.cache = CacheDelete(cache, key)
                 /\ got.branch = "hit" =>
                        Stored(cache, key) /\ got.value = CacheEntryOf(cache, key).value
                 /\ (cond.result[3] \/ cond.result[2] # "None" \/ cond.result[1] # "None") =>
                        Stored(cache, key))
    /\ [][(/\ cache' # cache
            /\ \E key \in StoreKeys : Stored(cache, key) /\ Expired(cache', key)) =>
              /\ Len(cache') = Len(cache)
              /\ \A i \in 1..Len(cache) :
                     /\ cache'[i].key = cache[i].key
                     /\ cache'[i].value = cache[i].value]_vars

C28_Witness ==
    /\ last_op.op = "get"
    /\ last_op.result = <<"None", "expired">>
    /\ \E key \in CacheKeys : popular_keys[key] > 0 /\ ~CacheHas(cache, key)

\* C29: after invalidate_pattern(prefix), run without another operation in
\* between, no stored key starts with the prefix, every entry whose key does
\* not start with it is stored as before, and the count returned is the number
\* of entries removed
C29_InvalidatePatternFrame ==
    \A pattern \in Patterns :
        LET done == InvalidatePatternOf(cache, pattern) IN
        /\ \A key \in StoredKeys(done.cache) : ~StartsWith(Chars(key), Chars(pattern))
        /\ \A i \in 1..Len(cache) :
               ~StartsWith(Chars(cache[i].key), Chars(pattern)) =>
                   \E j \in 1..Len(done.cache) : done.cache[j] = cache[i]
        /\ done.count = Len(cache) - Len(done.cache)
        /\ done.count = Cardinality(StoredKeys(cache) \ StoredKeys(done.cache))

C29_Witness ==
    /\ last_op.op = "invalidate_pattern"
    /\ last_op.result = <<1>>
    /\ Len(cache) = 1

\* the verified subscriptions the hub holds for the topic
VerifiedFor(topic) ==
    {sub \in {hub_subscriptions[topic][i].sub : i \in 1..Len(hub_subscriptions[topic])} :
        subs[sub].verified}

\* C30: when a publish of the event producer has delivered its alert to the
\* local subscribers, the hub has been given the alert for the verified
\* subscriptions it holds on the alert's topic
C30_AlertReachesHubSubscribers ==
    [][\A p \in 1..Len(pub') :
           (pub'[p].pc = "done" /\ (p > Len(pub) \/ pub[p].pc # "done")) =>
               \A sub \in VerifiedFor(published'[p].topic) :
                   \/ \E h \in 1..Len(hub_pub') : hub_pub'[h].topic = published'[p].topic
                   \/ \E i \in 1..Len(pushes') : pushes'[i].sub = sub]_vars

\* C31: when every fetcher ends and no task is cancelled, every get that was
\* called returns in the end (a value, or the error of the fetcher), and a key
\* that is in the pending table leaves it in the end: the finally of the
\* fetching call gets the lock after the callers waiting on the key
\* (a call that has returned stays so: it is enough that, again and again,
\* every call made so far has returned and the pending table is empty)
C31_EveryGetReturns ==
    []<>(/\ \A c \in GetCalls : get_call[c].pc \in {"idle", "returned"}
         /\ \A key \in CacheKeys : pending_requests[key] = 0)

C31_Witness ==
    \E c \in GetCalls, w \in GetCalls :
        /\ get_call[c].pc = "finally"
        /\ get_call[w].pc = "await_future"
        /\ get_call[w].awaits = c
        /\ lock.holder = w
        /\ c \in {lock.waiters[i] : i \in 1..Len(lock.waiters)}

\* C32: a push is sent to a callback for a topic only while the table of the
\* hub holds a subscription of that callback for the topic; after the
\* unsubscribe verification has removed it, no publish pushes to it, a publish
\* that was in progress at the removal included
C32_NoPushAfterUnsubscribe ==
    [][Len(pushes') > Len(pushes) =>
          LET push == pushes'[Len(pushes')] IN
          DictGet(hub_subscriptions[push.topic], push.callback) # 0]_vars

\* C33: a step of publish takes out of the table only subscriptions whose
\* lease has elapsed
C33_PublishPrunesOnlyExpired ==
    [][hub_pub' # hub_pub =>
          \A topic \in HubPublishTopics :
              \A i \in 1..Len(hub_subscriptions[topic]) :
                  LET entry == hub_subscriptions[topic][i] IN
                  DictGet(hub_subscriptions'[topic], entry.callback) # entry.sub =>
                      IsExpired(subs[entry.sub])]_vars

\* the table of a topic after the verification of the task was echoed:
\* the subscription is stored under its callback, or the callback is popped
TableAfterEcho(table, task) ==
    IF task.mode = "subscribe"
    THEN DictSet(table, subs[task.sub].callback_url, task.sub)
    ELSE DictPop(table, subs[task.sub].callback_url)

\* C34: when a subscribe and an unsubscribe of one (topic, callback) pair have
\* both been accepted and both verifications are echoed, the pair is in the
\* table or not according to the requests, whichever echo comes first
C34_LastAcceptedDecides ==
    \A sub \in verifications, unsub \in verifications :
        (/\ sub.mode = "subscribe" /\ unsub.mode = "unsubscribe"
         /\ subs[sub.sub].topic = subs[unsub.sub].topic
         /\ subs[sub.sub].callback_url = subs[unsub.sub].callback_url) =>
            LET table == hub_subscriptions[subs[sub.sub].topic]
                callback == subs[sub.sub].callback_url
            IN  (DictGet(TableAfterEcho(TableAfterEcho(table, sub), unsub), callback) # 0)
                    <=> (DictGet(TableAfterEcho(TableAfterEcho(table, unsub), sub), callback) # 0)

\* the index keys by which the delivery of a message on the topic finds the
\* subscriber: the topic itself, its wildcard patterns, "alerts.all"
Routes(s, topic) == {k \in DeliveryTable[topic] : s \in topic_subscribers[k]}

\* C35: one publish invokes the callback of a subscriber at most once, by
\* however many routes the subscriber matches the message
C35_OnceByEveryRoute ==
    \A p \in 1..Len(pub) : \A s \in SubIds :
        /\ Cardinality({i \in 1..Len(received[s]) : received[s][i].msg = p}) <= 1
        /\ Cardinality(Routes(s, published[p].topic)) > 1 => Invoked(s, p) <= 1

\* a publish has returned after it invoked, once, a subscriber that matched
\* by the topic, by a wildcard pattern and by "alerts.all"
C35_Witness ==
    \E p \in 1..Len(pub) : \E s \in SubIds :
        /\ pub[p].pc = "done"
        /\ Undisturbed(p)
        /\ Routes(s, published[p].topic) = {"alerts.cms", "alerts.*", "alerts.all"}
        /\ Invoked(s, p) = 1

\* C36: one call of publish_exploit_alert invokes the callback of each
\* subscriber at most once (the behaviours of SpecAlert hold one such call, so
\* every invocation is one for its alert)
C36_OncePerAlert == \A s \in SubIds : Len(received[s]) <= 1

\* C37: conditional_get takes out of the cache nothing but the expired entry
\* it read under the key: every entry that has not expired is stored as
\* before, while sets and the fetches of warm_cache go on around the call
C37_DeletesOnlyTheExpiredEntry ==
    \A key \in StoreKeys, tag \in ClientTags :
        LET got == ConditionalGetOf(cache, key, tag) IN
        /\ \A i \in 1..Len(cache) :
               ~cache[i].expired => \E j \in 1..Len(got.cache) : got.cache[j] = cache[i]
        /\ got.cache # cache =>
               /\ got.branch = "expired"
               /\ Expired(cache, key)
               /\ Len(got.cache) = Len(cache) - 1

\* conditional_get found an expired entry and deleted it while a fetch of
\* warm_cache was in flight and another entry was stored
C37_Witness ==
    /\ last_op.op = "conditional_get"
    /\ last_op.result[4] = "expired"
    /\ warming # {}
    /\ \E i \in 1..Len(cache) : ~cache[i].expired

\* C38: set of a key that is stored replaces the entry of that key only:
\* every other key stored before the call is stored after it, also in a cache
\* that holds max_size entries
C38_SetOfStoredKeyKeepsOthers ==
    \A key \in StoreKeys, input \in StoreInputs :
        CacheHas(cache, key) =>
            \A i \in 1..Len(cache) :
                CacheHas(LRUSetTagged(cache, key, input.value, input.etag), cache[i].key)

\* C39: the fetcher of a get that was running when invalidate(key) was called
\* does not put its result into the cache when it returns: if the key was a
\* miss before the fetcher returned, it is a miss after
C39_InFlightFetchNotStored ==
    [][\A c \in GetCalls :
           (/\ get_call[c].pc = "fetch"
            /\ get_call[c].invalidated
            /\ get_call'[c].pc # "fetch"
            /\ ~Stored(cache, get_call[c].key))
           => ~Stored(cache', get_call[c].key)]_vars

\* C40: a get with a fetcher made while a result of an earlier fetcher is
\* stored under the key and has not expired does not invoke its fetcher, for
\* every value the earlier fetcher returned, None included
C40_StoredResultNotFetchedAgain ==
    \A c \in GetCalls :
        (/\ get_call[c].pc # "idle"
         /\ get_call[c].fetcher
         /\ get_call[c].stored)
        => ~get_call[c].invoked

=============================================================================
